---------------------------- MODULE Spec2Model ----------------------------
(***************************************************************************)
(* Multi-modal watermarking backend (hackeurope-lyra).                     *)
(*                                                                         *)
(* The module models                                                       *)
(*   - the signed payload codec   (backend/watermarking/payload.py),       *)
(*   - the text engine            (backend/watermarking/text_watermark.py),*)
(*   - the payload paths of the image, audio, video and pdf engines,       *)
(*   - the registry               (backend/watermarking/registry.py),      *)
(*   - the two endpoints          (backend/main.py).                       *)
(*                                                                         *)
(* Conventions.  A byte string is a sequence over 0..255.  A Python str is *)
(* a sequence of Unicode code points.  Python's None is the value None     *)
(* below.  SHA-256 is a free constructor ([sha256 |-> input]): two digests *)
(* are equal iff their inputs are.  HMAC-SHA-256 truncated to 32 bits is a *)
(* keyed checksum (HmacTag) that separates the keys of the model and every *)
(* single-byte change of the message.                                      *)
(***************************************************************************)
EXTENDS Integers, Sequences, FiniteSets, TLC

\* ------------------------------------------------------------------------
\* Generic helpers
\* ------------------------------------------------------------------------

None == <<-1>>

Min(a, b) == IF a < b THEN a ELSE b

Max(a, b) == IF a > b THEN a ELSE b

\* Python slice s[lo:hi] on a zero-based sequence (clamped to the length).
Slice(s, lo, hi) == SubSeq(s, Min(lo, Len(s)) + 1, Min(hi, Len(s)))

\* c repeated n times.
Rep(c, n) == [i \in 1..n |-> c]

\* bytes.ljust(n, b"\x00")
LJust(b, n) == b \o Rep(0, Max(0, n - Len(b)))

\* bytes.rstrip(b"\x00")
RECURSIVE RStripNul(_)
RStripNul(b) ==
    IF Len(b) > 0 /\ b[Len(b)] = 0 THEN RStripNul(SubSeq(b, 1, Len(b) - 1)) ELSE b

\* A Python int that may need more than 31 bits, as two limbs: the value is
\* hi * 2^16 + lo with 0 <= lo < 2^16.
Wide(hi, lo) == [hi |-> hi, lo |-> lo]

WideSucc(w) ==
    IF w.lo = 65535 THEN Wide(w.hi + 1, 0) ELSE Wide(w.hi, w.lo + 1)

\* n & 0xFFFFFFFF
U32(w) == Wide(w.hi % 65536, w.lo)

\* struct.pack(">I", n): n is already reduced mod 2^32 by the callers.
PackBE32(w) == << w.hi \div 256, w.hi % 256, w.lo \div 256, w.lo % 256 >>

\* struct.unpack(">I", b)[0]
UnpackBE32(b) == Wide(b[1] * 256 + b[2], b[3] * 256 + b[4])

\* ------------------------------------------------------------------------
\* UTF-8  (str.encode("utf-8"), bytes.decode("utf-8", errors="replace"))
\* ------------------------------------------------------------------------

Utf8EncodeChar(cp) ==
    IF cp < 128 THEN << cp >>
    ELSE IF cp < 2048 THEN << 192 + (cp \div 64), 128 + (cp % 64) >>
    ELSE IF cp < 65536
         THEN << 224 + (cp \div 4096), 128 + ((cp \div 64) % 64), 128 + (cp % 64) >>
         ELSE << 240 + (cp \div 262144), 128 + ((cp \div 4096) % 64),
                 128 + ((cp \div 64) % 64), 128 + (cp % 64) >>

RECURSIVE Utf8Encode(_)
Utf8Encode(s) ==
    IF s = << >> THEN << >> ELSE Utf8EncodeChar(Head(s)) \o Utf8Encode(Tail(s))

ReplacementChar == 65533

\* Number of continuation bytes a lead byte announces (0: not a lead byte).
Utf8Need(b0) ==
    IF b0 >= 194 /\ b0 <= 223 THEN 1
    ELSE IF b0 >= 224 /\ b0 <= 239 THEN 2
    ELSE IF b0 >= 240 /\ b0 <= 244 THEN 3
    ELSE 0

\* Whether c is a well-formed k-th continuation byte after lead byte b0.
Utf8ContOk(b0, k, c) ==
    IF k = 1 /\ b0 = 224 THEN c >= 160 /\ c <= 191
    ELSE IF k = 1 /\ b0 = 237 THEN c >= 128 /\ c <= 159
    ELSE IF k = 1 /\ b0 = 240 THEN c >= 144 /\ c <= 191
    ELSE IF k = 1 /\ b0 = 244 THEN c >= 128 /\ c <= 143
    ELSE c >= 128 /\ c <= 191

\* How many of the announced continuation bytes after position i are valid.
RECURSIVE Utf8Good(_, _, _, _)
Utf8Good(b, i, k, need) ==
    IF k > need \/ i + k > Len(b) THEN k - 1
    ELSE IF Utf8ContOk(b[i], k, b[i + k]) THEN Utf8Good(b, i, k + 1, need)
    ELSE k - 1

Utf8CodePoint(b, i, need) ==
    IF need = 1 THEN (b[i] - 192) * 64 + (b[i + 1] - 128)
    ELSE IF need = 2
         THEN (b[i] - 224) * 4096 + (b[i + 1] - 128) * 64 + (b[i + 2] - 128)
         ELSE (b[i] - 240) * 262144 + (b[i + 1] - 128) * 4096
              + (b[i + 2] - 128) * 64 + (b[i + 3] - 128)

\* Decoding from position i; an ill-formed maximal subpart becomes U+FFFD.
RECURSIVE Utf8DecodeFrom(_, _)
Utf8DecodeFrom(b, i) ==
    IF i > Len(b) THEN << >>
    ELSE IF b[i] < 128 THEN << b[i] >> \o Utf8DecodeFrom(b, i + 1)
    ELSE LET need == Utf8Need(b[i])
             good == Utf8Good(b, i, 1, need)
         IN  IF need > 0 /\ good = need
             THEN << Utf8CodePoint(b, i, need) >> \o Utf8DecodeFrom(b, i + need + 1)
             ELSE << ReplacementChar >> \o Utf8DecodeFrom(b, i + good + 1)

Utf8Decode(b) == Utf8DecodeFrom(b, 1)

\* ------------------------------------------------------------------------
\* Crypto primitives  (hashlib.sha256, hmac.new(...).digest()[:4])
\* ------------------------------------------------------------------------

\* hashlib.sha256(data): a free constructor, injective in its input.
Sha256(data) == [sha256 |-> data]

\* Position-weighted checksum: any single-byte change and any change of
\* length changes it.
RECURSIVE Checksum(_, _)
Checksum(b, i) ==
    IF i > Len(b) THEN 0 ELSE i * (b[i] + 1) + Checksum(b, i + 1)

\* hmac.new(key, msg, sha256).digest()[:4]
HmacTag_unkeyed(key, msg) == PackBE32(Wide(0, Checksum(msg, 1) % 65536))

HmacTag(key, msg) ==
    PackBE32(Wide(Checksum(key, 1) % 65536, Checksum(msg, 1) % 65536))

\* ------------------------------------------------------------------------
\* Payload codec  (payload.py)
\* ------------------------------------------------------------------------

MAGIC == << 87, 77 >>

MODEL_LEN == 16

CTX_LEN == 8

PAYLOAD_BYTES == 2 + 4 + MODEL_LEN + CTX_LEN + 4

PAYLOAD_BITS == PAYLOAD_BYTES * 8

PRE_LEN == 2 + 4 + MODEL_LEN + CTX_LEN

\* The value standing for None where an integer is expected.
NoneInt == Wide(-1, -1)

\* A timestamp argument: an ISO-8601 string denoting `secs` Unix seconds, or
\* a string datetime.fromisoformat rejects.
IsoTimestamp(secs) == [iso |-> TRUE, secs |-> secs]

BadTimestamp == [iso |-> FALSE, secs |-> Wide(0, 0)]

\* int(datetime.fromisoformat(timestamp).timestamp()) & 0xFFFFFFFF, with the
\* except branch int(time.time()) & 0xFFFFFFFF; `now` is the wall clock.
TimestampToU32_clock(timestamp, now) == U32(now)

TimestampToU32(timestamp, now) ==
    IF timestamp.iso THEN U32(timestamp.secs) ELSE U32(now)

\* (s or "").encode("utf-8")[:n].ljust(n, b"\x00")
EncodeField(s, n) ==
    LJust(Slice(Utf8Encode(IF s = None THEN << >> ELSE s), 0, n), n)

\* field.rstrip(b"\x00").decode("utf-8", errors="replace") or None
DecodeField_nostrip(b) ==
    LET s == Utf8Decode(b) IN IF s = << >> THEN None ELSE s

DecodeField(b) ==
    LET s == Utf8Decode(RStripNul(b)) IN IF s = << >> THEN None ELSE s

build_payload(model_name, timestamp, key, context, now) ==
    LET ts_int   == TimestampToU32(timestamp, now)
        model_b  == EncodeField(model_name, MODEL_LEN)
        ctx_b    == EncodeField(context, CTX_LEN)
        pre_auth == MAGIC \o PackBE32(ts_int) \o model_b \o ctx_b
        tag      == HmacTag(key, pre_auth)
    IN  pre_auth \o tag

\* The result of parse_payload: None is the record with valid = FALSE.
ParseNone ==
    [valid |-> FALSE, model_name |-> None, timestamp_unix |-> NoneInt,
     context |-> None]

\* hmac.compare_digest(claimed_tag, expected_tag)
TagMatches_always(claimed_tag, expected_tag) == TRUE

TagMatches(claimed_tag, expected_tag) == claimed_tag = expected_tag

parse_payload(raw, key) ==
    IF Len(raw) < PAYLOAD_BYTES THEN ParseNone
    ELSE LET pl == Slice(raw, 0, PAYLOAD_BYTES) IN
         IF Slice(pl, 0, 2) # MAGIC THEN ParseNone
         ELSE LET pre_auth     == Slice(pl, 0, PRE_LEN)
                  claimed_tag  == Slice(pl, PRE_LEN, PRE_LEN + 4)
                  expected_tag == HmacTag(key, pre_auth)
              IN  IF ~TagMatches(claimed_tag, expected_tag) THEN ParseNone
                  ELSE [valid          |-> TRUE,
                        model_name     |-> DecodeField(Slice(pl, 6, 6 + MODEL_LEN)),
                        timestamp_unix |-> UnpackBE32(Slice(pl, 2, 6)),
                        context        |-> DecodeField(
                                             Slice(pl, 6 + MODEL_LEN,
                                                   6 + MODEL_LEN + CTX_LEN))]

Pow2(n) == IF n = 0 THEN 1 ELSE IF n = 1 THEN 2 ELSE IF n = 2 THEN 4
           ELSE IF n = 3 THEN 8 ELSE IF n = 4 THEN 16 ELSE IF n = 5 THEN 32
           ELSE IF n = 6 THEN 64 ELSE 128

\* bytes -> bits, least significant bit first
to_bits_lsb(data) ==
    [n \in 1..(8 * Len(data)) |->
        (data[((n - 1) \div 8) + 1] \div Pow2((n - 1) % 8)) % 2]

\* bytes -> bits, most significant bit first
to_bits(data) ==
    [n \in 1..(8 * Len(data)) |->
        (data[((n - 1) \div 8) + 1] \div Pow2(7 - ((n - 1) % 8))) % 2]

\* bits -> bytes, padded with 0 to the next multiple of 8
from_bits(bits) ==
    LET padded == bits \o Rep(0, (8 - (Len(bits) % 8)) % 8)
        ByteAt(k) ==
            padded[8 * k + 1] * 128 + padded[8 * k + 2] * 64
            + padded[8 * k + 3] * 32 + padded[8 * k + 4] * 16
            + padded[8 * k + 5] * 8 + padded[8 * k + 6] * 4
            + padded[8 * k + 7] * 2 + padded[8 * k + 8]
    IN  [k \in 1..(Len(padded) \div 8) |-> ByteAt(k - 1)]

\* WM_ID = SHA256(K || ts_bytes || model_bytes), as a hex digest
derive_wm_id(model_name, timestamp_unix, key) ==
    LET ts_b    == PackBE32(U32(timestamp_unix))
        model_b == EncodeField(model_name, MODEL_LEN)
    IN  Sha256(key \o ts_b \o model_b)

\* timestamp_unix & 0xFFFF_FFFF is a TypeError when timestamp_unix is None.
derive_wm_id_raises(timestamp_unix) == timestamp_unix = NoneInt

\* ------------------------------------------------------------------------
\* Zero-width alphabet  (payload.py ZW_ENC / ZW_DEC)
\* ------------------------------------------------------------------------

\* (b0, b1) -> invisible code point: U+200B, U+200C, U+200D, U+2060
ZW_ENC(b0, b1) ==
    IF b0 = 0 /\ b1 = 0 THEN 8203
    ELSE IF b0 = 0 /\ b1 = 1 THEN 8204
    ELSE IF b0 = 1 /\ b1 = 0 THEN 8205
    ELSE 8288

\* invisible code point -> <<b0, b1>>
ZW_DEC(ch) ==
    IF ch = 8203 THEN << 0, 0 >>
    ELSE IF ch = 8204 THEN << 0, 1 >>
    ELSE IF ch = 8205 THEN << 1, 0 >>
    ELSE << 1, 1 >>

ZW_SET == {8203, 8204, 8205, 8288}

\* ------------------------------------------------------------------------
\* Text engine  (text_watermark.py)
\*
\* A text is the sequence of its whitespace-delimited tokens.  A token is
\* [w, zw]: w names the token's visible characters (its base word) and zw is
\* the sequence of zero-width code points in it.  The words of the model:
\*   0  a token of punctuation only ("--"): its cleaned form is empty
\*   1..4  four ordinary words
\* The keyed digests of a word are read from the tables below, one column
\* per word and one row per key; SHA-256 and the PRNG being what they are,
\* words with these digests exist for any key.
\* ------------------------------------------------------------------------

Words == 0..4

REDUNDANCY == 5

\* The key's row in the tables.
KeyRow(key) == IF key = << 107, 49 >> THEN 1 ELSE 2

\* word.strip(punctuation).lower() is empty
CleanedEmpty(w) == w = 0

\* hashlib.sha256(key + b"\x00carrier\x00" + cleaned).digest()[0]
CarrierDigest(w, key) ==
    << << 58, 145, 43, 64, 198 >>, << 33, 12, 77, 201, 6 >> >>[KeyRow(key)][w + 1]

\* hashlib.sha256(key + b"\x00copy\x00" + cleaned).digest()[0]
CopyDigest(w, key) ==
    << << 7, 200, 83, 17, 9 >>, << 90, 1, 131, 44, 250 >> >>[KeyRow(key)][w + 1]

\* int(md5(cleaned).hexdigest()[:8], 16) % VOCAB_SIZE
word_to_token_id(w) == << 20905, 101, 202, 303, 404 >>[w + 1]

\* G_K restricted to the token ids of the model's words.
build_green_set(key) ==
    IF KeyRow(key) = 1 THEN {101, 202, 303} ELSE {404, 20905, 202}

is_carrier(w, key) ==
    IF CleanedEmpty(w) THEN FALSE ELSE CarrierDigest(w, key) % 2 = 1

carrier_copy(w, key) == CopyDigest(w, key) % REDUNDANCY

Token(w) == [w |-> w, zw |-> << >>]

\* Indices 1..n as a sequence, and those of them that satisfy Test.
Indices(n) == [i \in 1..n |-> i]

\* all_carriers: the carrier tokens, or every token when there is none.
AllCarriers(tokens, key) ==
    LET c == SelectSeq(Indices(Len(tokens)),
                       LAMBDA i : is_carrier(tokens[i].w, key))
    IN  IF c = << >> THEN Indices(Len(tokens)) ELSE c

\* copy_carriers[r]
CopyCarriers(tokens, key, r) ==
    SelectSeq(AllCarriers(tokens, key),
              LAMBDA i : carrier_copy(tokens[i].w, key) = r)

\* (PAYLOAD_BITS + 1) // 2
TotalZw == (PAYLOAD_BITS + 1) \div 2

\* max(1, total_zw // len(ccl)): the division rounded down
ZwPerWord_floor(n) == Max(1, TotalZw \div n)

\* max(1, -(-total_zw // len(ccl)))
ZwPerWord(n) == Max(1, (TotalZw + n - 1) \div n)

\* The zero-width string the inner loop builds for the carrier at position
\* p (from 0) of a copy of n carriers.
ZwString(payload_bits, p, n) ==
    LET zpw   == ZwPerWord(n)
        first == Min(p * zpw, TotalZw)
        last  == Min((p + 1) * zpw, TotalZw)
    IN  [q \in 1..(last - first) |->
            ZW_ENC(payload_bits[2 * (first + q - 1) + 1],
                   payload_bits[2 * (first + q - 1) + 2])]

\* Position (from 0) of index i in the sequence ccl.
PosIn(ccl, i) == Cardinality({j \in 1..Len(ccl) : ccl[j] < i})

\* embed_text_watermark: the watermarked token sequence.
embed_text_watermark(text, key, model_name, timestamp, context, now) ==
    IF text = << >> THEN text
    ELSE LET payload_bits ==
                 to_bits(build_payload(model_name, timestamp, key, context, now))
             carriers == AllCarriers(text, key)
             IsIn(i) == \E j \in 1..Len(carriers) : carriers[j] = i
             Out(i) ==
                 IF ~IsIn(i) THEN text[i]
                 ELSE LET ccl == CopyCarriers(text, key,
                                              carrier_copy(text[i].w, key))
                      IN  [text[i] EXCEPT
                             !.zw = @ \o ZwString(payload_bits,
                                                  PosIn(ccl, i), Len(ccl))]
         IN  [i \in 1..Len(text) |-> Out(i)]

\* The bits the zero-width characters of one token decode to.
ZwBits(zw) ==
    [i \in 1..(2 * Len(zw)) |-> ZW_DEC(zw[(i + 1) \div 2])[((i - 1) % 2) + 1]]

\* copy_bits[r] when the zero-width characters of every token are read.
RECURSIVE CopyBits_any(_, _, _, _)
CopyBits_any(text, key, r, i) ==
    IF i > Len(text) THEN << >>
    ELSE (IF /\ text[i].zw # << >>
             /\ carrier_copy(text[i].w, key) = r
          THEN ZwBits(text[i].zw) ELSE << >>)
         \o CopyBits_any(text, key, r, i + 1)

\* copy_bits[r] after the extraction loop over the raw tokens from index i.
RECURSIVE CopyBits(_, _, _, _)
CopyBits(text, key, r, i) ==
    IF i > Len(text) THEN << >>
    ELSE (IF /\ is_carrier(text[i].w, key)
             /\ text[i].zw # << >>
             /\ carrier_copy(text[i].w, key) = r
          THEN ZwBits(text[i].zw) ELSE << >>)
         \o CopyBits(text, key, r, i + 1)

\* complete = [c[:PAYLOAD_BITS] for c in copy_bits if len(c) >= PAYLOAD_BITS]
Complete(copy_bits) ==
    LET ok == SelectSeq(copy_bits, LAMBDA c : Len(c) >= PAYLOAD_BITS)
    IN  [j \in 1..Len(ok) |-> SubSeq(ok[j], 1, PAYLOAD_BITS)]

\* `complete` after the extraction loop over the tokens of `text`
CompleteCopies(text, key) ==
    Complete([r \in 1..REDUNDANCY |-> CopyBits(text, key, r - 1, 1)])

RECURSIVE SumAt(_, _, _)
SumAt(copies, i, j) ==
    IF j > Len(copies) THEN 0 ELSE copies[j][i] + SumAt(copies, i, j + 1)

\* The bitwise vote in which half of the copies is enough for a 1.
MajorityVote_half(copies) ==
    [i \in 1..PAYLOAD_BITS |->
        IF 2 * SumAt(copies, i, 1) >= Len(copies) THEN 1 ELSE 0]

\* The bitwise majority over the copies; a tie gives 0.
MajorityVote(copies) ==
    [i \in 1..PAYLOAD_BITS |->
        IF 2 * SumAt(copies, i, 1) > Len(copies) THEN 1 ELSE 0]

\* O_G: the tokens whose id is green.
GreenCount(text, key) ==
    Cardinality({i \in 1..Len(text) :
                    word_to_token_id(text[i].w) \in build_green_set(key)})

\* Z > z_threshold with gamma = 0.5 and z_threshold = 1.5:
\* (O_G - N/2) / sqrt(N/4) > 3/2  iff  2 O_G - N > 0 and 4 (2 O_G - N)^2 > 9 N
ZAboveThreshold(text, key) ==
    LET d == 2 * GreenCount(text, key) - Len(text)
    IN  d > 0 /\ 4 * d * d > 9 * Len(text)

NoneId == Sha256(None)

\* The result dict of a verifier before anything is found.  source is
\* "absent" when the dict has no such key and "null" when it holds None.
BaseResult ==
    [detected |-> FALSE, stat |-> FALSE, signature_valid |-> FALSE,
     model_name |-> None, context |-> None, timestamp_unix |-> NoneInt,
     wm_id |-> NoneId, source |-> "absent"]

\* The result dict once a payload parsed: p is the result of parse_payload.
PayloadResult(p, key, stat, source) ==
    [detected |-> TRUE, stat |-> stat, signature_valid |-> TRUE,
     model_name |-> p.model_name, context |-> p.context,
     timestamp_unix |-> p.timestamp_unix,
     wm_id |-> derive_wm_id(p.model_name, p.timestamp_unix, key),
     source |-> source]

\* The result dict of a verifier: p is what parse_payload gave for the
\* payload it read, stat the outcome of its statistical test, source and
\* nosource the "source" it reports with and without a payload.
EngineResult(p, key, stat, source, nosource) ==
    IF p.valid THEN PayloadResult(p, key, stat, source)
    ELSE [BaseResult EXCEPT !.detected = stat, !.stat = stat,
                            !.source = nosource]

\* parse_payload(from_bits(voted), key) when there is a complete copy
VotedPayload(complete, key) ==
    IF complete = << >> THEN ParseNone
    ELSE parse_payload(from_bits(MajorityVote(complete)), key)

\* verify_text_watermark
verify_text_watermark(text, key) ==
    IF Len(text) = 0 THEN BaseResult
    ELSE EngineResult(VotedPayload(CompleteCopies(text, key), key), key,
                      ZAboveThreshold(text, key), "absent", "absent")

\* ------------------------------------------------------------------------
\* Artifacts
\*
\* An artifact is a record of the places a payload can sit in, whatever its
\* modality:
\*   data_type   "text", "image", "audio", "video", "pdf"
\*   text        the tokens of a text, zero-width code points and all
\*               (empty otherwise)
\*   content     what a binary artifact shows or sounds like: the identity
\*               of the picture, sound, film or document (0 for a text)
\*   meta        the WM_PAYLOAD field of a PNG or PDF: the bytes its hex
\*               digits stand for
\*   keywords    the Keywords field of a PNG or PDF: the bytes whose bits
\*               its zero-width code points encode
\*   annots      the hidden FreeText annotations of a PDF, likewise
\*   qim         the quantised coefficients of an image, sound or film: the
\*               bytes whose bits were written and the key that chose their
\*               positions
\* The signal processing is taken to be exact: what QIM writes under a key
\* is what QIM reads under that key from the untouched artifact.
\* ------------------------------------------------------------------------

NoQim == [key |-> << >>, bytes |-> << >>]

Artifact(data_type, text, content) ==
    [data_type |-> data_type, text |-> text, content |-> content,
     meta |-> << >>, keywords |-> << >>, annots |-> << >>, qim |-> NoQim]

NoArtifact == Artifact("none", << >>, 0)

\* The zero-width string of a bit sequence (image_watermark.py 235-239,
\* pdf_watermark._bits_to_zw).
bits_to_zw(bits) ==
    [q \in 1..((Len(bits) + 1) \div 2) |->
        ZW_ENC(bits[2 * q - 1], IF 2 * q <= Len(bits) THEN bits[2 * q] ELSE 0)]

\* The bits QIM extraction reads under key: those written under that key,
\* and noise (here: zeros) at the positions another key selects.
QimRead(art, key) ==
    IF art.qim.key = key /\ Len(art.qim.bytes) >= PAYLOAD_BYTES
    THEN SubSeq(to_bits(art.qim.bytes), 1, PAYLOAD_BITS)
    ELSE [i \in 1..PAYLOAD_BITS |-> 0]

\* The bytes a verifier reads from a zero-width field: from_bits of its
\* first PAYLOAD_BITS bits, nothing when it holds fewer.
ZwFieldBytes(field) ==
    LET bits == ZwBits(bits_to_zw(to_bits(field)))
    IN  IF Len(bits) >= PAYLOAD_BITS
        THEN from_bits(SubSeq(bits, 1, PAYLOAD_BITS))
        ELSE << >>

\* The layers of an artifact are tried in order: raws are the bytes read
\* from each, sources the names they are reported under.  The result is
\* that of the first layer whose payload parses.
LayerResult_first_only(parsed, sources, key, stat, nosource) ==
    EngineResult(parsed[1], key, stat, sources[1], nosource)

LayerResult(parsed, sources, key, stat, nosource) ==
    LET ok == {i \in 1..Len(parsed) : parsed[i].valid}
        first == CHOOSE i \in ok : \A j \in ok : i <= j
    IN  IF ok = {} THEN EngineResult(ParseNone, key, stat, "none", nosource)
        ELSE EngineResult(parsed[first], key, stat, sources[first], nosource)

TryLayers(raws, sources, key, stat, nosource) ==
    LayerResult([i \in 1..Len(raws) |-> parse_payload(raws[i], key)],
                sources, key, stat, nosource)

\* ------------------------------------------------------------------------
\* Image engine  (image_watermark.py)
\* ------------------------------------------------------------------------

embed_image_watermark(image, key, model_name, timestamp, context, now) ==
    LET payload == build_payload(model_name, timestamp, key, context, now)
    IN  [image EXCEPT
            !.qim = [key |-> key, bytes |-> payload],
            !.meta = payload,
            !.keywords = payload]

\* stat: rho > threshold, the outcome of the DCT correlation.
\* Layers in the order tried: WM_PAYLOAD, Keywords, QIM.
verify_image_watermark(image, key, stat) ==
    TryLayers(<< image.meta, ZwFieldBytes(image.keywords),
                 from_bits(QimRead(image, key)) >>,
              << "metadata_wm_payload", "metadata_keywords", "qim_dct" >>,
              key, stat, "null")

\* ------------------------------------------------------------------------
\* Audio engine  (audio_watermark.py)
\* ------------------------------------------------------------------------

embed_audio_watermark(audio, key, model_name, timestamp, context, now) ==
    LET payload == build_payload(model_name, timestamp, key, context, now)
    IN  [audio EXCEPT !.qim = [key |-> key, bytes |-> payload]]

\* stat: abs(rho) > threshold, the outcome of the FFT correlation.
verify_audio_watermark(audio, key, stat) ==
    TryLayers(<< from_bits(QimRead(audio, key)) >>, << "absent" >>,
              key, stat, "absent")

AUD_COPIES == 3

\* len(np.fft.rfft(mono)) for a clip of n_samples samples per channel
NFreqs(n_samples) == n_samples \div 2 + 1

\* _aud_qim_band(copy_idx, n_freqs): << f_lo, f_hi >>
aud_qim_band(copy_idx, n_freqs) ==
    LET slice_size == Max(1, n_freqs \div 6)
        f_lo       == (2 * copy_idx + 1) * slice_size
    IN  << f_lo, Min(f_lo + slice_size, n_freqs - 1) >>

\* _aud_qim_positions(key, n_freqs, copy_idx): the bins the keyed PRNG can
\* give for a payload bit: randint(f_lo, max(f_lo + 1, f_hi)) when the band
\* has fewer than PAYLOAD_BITS bins, randint(f_lo, f_hi) otherwise.
aud_qim_positions(n_freqs, copy_idx) ==
    LET band == aud_qim_band(copy_idx, n_freqs)
    IN  IF band[2] - band[1] < PAYLOAD_BITS
        THEN band[1]..(Max(band[1] + 1, band[2]) - 1)
        ELSE band[1]..(band[2] - 1)

\* _band_qim_step(X, copy_idx, n_freqs) is NaN: X[f_lo:f_hi] is empty, its
\* median is NaN, and max(NaN, 1.0) is NaN.
StepIsNaN(copy_idx, n_freqs) ==
    LET band == aud_qim_band(copy_idx, n_freqs)
    IN  Min(band[2], n_freqs) <= Min(band[1], n_freqs)

\* _embed_qim_aud / _extract_qim_aud at bin f of copy_idx raise: X[f] is an
\* IndexError outside the spectrum, int(round(NaN)) a ValueError.
QimRaises(copy_idx, n_freqs, f) ==
    f \notin 0..(n_freqs - 1) \/ StepIsNaN(copy_idx, n_freqs)

\* ------------------------------------------------------------------------
\* Video engine  (video_watermark.py)
\* ------------------------------------------------------------------------

\* The payload is built without a context.
embed_video_watermark(video, key, model_name, timestamp, now) ==
    LET payload == build_payload(model_name, timestamp, key, None, now)
    IN  [video EXCEPT !.qim = [key |-> key, bytes |-> payload]]

\* The result dict has no "context" key, whatever the payload holds.
verify_video_watermark(video, key, stat) ==
    [TryLayers(<< from_bits(QimRead(video, key)) >>, << "absent" >>,
               key, stat, "absent")
        EXCEPT !.context = None]

\* verify_video_watermark on a file of `total` frames: base when there is
\* none.
verify_video_frames(total, video, key, stat) ==
    IF total = 0 THEN BaseResult
    ELSE verify_video_watermark(video, key, stat)

\* ------------------------------------------------------------------------
\* PDF engine  (pdf_watermark.py)
\* ------------------------------------------------------------------------

embed_pdf_watermark(pdf, key, model_name, timestamp, context, now) ==
    LET payload == build_payload(model_name, timestamp, key, context, now)
    IN  [pdf EXCEPT !.meta = payload, !.keywords = payload,
                    !.annots = payload]

\* bytes.fromhex(str(hex_val)) of the /WM_PAYLOAD field: nothing when the
\* field is absent or holds anything but hex digits (the ValueError is
\* swallowed).  A field is the sequence of the bytes its digits spell; an
\* element outside 0..255 stands for characters that are no hex digits.
HexFieldBytes(field) ==
    IF \A i \in 1..Len(field) : field[i] \in 0..255 THEN field ELSE << >>

\* No statistical layer: detected is signature_valid.
\* Layers in the order tried: /WM_PAYLOAD, /Keywords, annotations.
verify_pdf_watermark(pdf, key) ==
    TryLayers(<< HexFieldBytes(pdf.meta), ZwFieldBytes(pdf.keywords),
                 ZwFieldBytes(pdf.annots) >>,
              << "metadata", "keywords", "annotation" >>,
              key, FALSE, "null")

\* ------------------------------------------------------------------------
\* Registry  (registry.py)
\*
\* registry.json is the sequence of its entries; a missing file reads as the
\* empty list.  An average hash, a list of frame hashes and a spectral
\* fingerprint are named by the content they were computed from (0: None);
\* two of them are within the lookup's threshold only if they come from the
\* same content, and whether they are is an outcome of the signal
\* processing (near).
\* ------------------------------------------------------------------------

\* _text_shingles(text, k=3): the 3-grams of the tokens; None (here: {}) for
\* fewer than 3 tokens.
text_shingles(text) ==
    IF Len(text) < 3 THEN {}
    ELSE {SubSeq(text, i, i + 2) : i \in 1..(Len(text) - 2)}

\* _jaccard_similarity(a, b) > 0.40, and the order of two similarities
\* [n, d] = n / d.
JaccardPair(a, b) ==
    IF a = {} \/ b = {} THEN << 0, 1 >>
    ELSE << Cardinality(a \cap b), Cardinality(a \cup b) >>

FracGreater(x, y) == x[1] * y[2] > y[1] * x[2]

\* The entry register_watermark builds.
RegistryEntry(wm_id, data_type, original, watermarked, model_name, context, payload_hex, registered_at) ==
    [wm_id |-> wm_id, data_type |-> data_type,
     content_hash |-> Sha256(original),
     wm_content_hash |-> Sha256(watermarked),
     phash |-> IF data_type = "image" THEN original.content ELSE 0,
     frame_hashes |-> IF data_type = "video" THEN original.content ELSE 0,
     audio_fingerprint |-> IF data_type = "audio" THEN original.content ELSE 0,
     text_shingles |-> IF data_type = "text" THEN text_shingles(original.text)
                       ELSE {},
     model_name |-> model_name, context |-> context,
     payload_hex |-> payload_hex, registered_at |-> registered_at]

\* any(e.get("wm_id") == wm_id for e in entries)
HasWmId_never(entries, wm_id) == FALSE

HasWmId(entries, wm_id) == \E i \in 1..Len(entries) : entries[i].wm_id = wm_id

\* The list register_watermark writes back, or the one it read when the id
\* is already there.
Registered_overwrite(entries, entry) == << entry >>

Registered(entries, entry) ==
    IF HasWmId(entries, entry.wm_id) THEN entries ELSE Append(entries, entry)

\* A lookup's answer: the entry and how it matched; none when found is FALSE.
NoMatch == [found |-> FALSE, index |-> 0, match_type |-> "none"]

Match(i, match_type) == [found |-> TRUE, index |-> i, match_type |-> match_type]

\* First of the indices in hits, 0 when there is none.
FirstIndex(hits) ==
    IF hits = {} THEN 0 ELSE CHOOSE i \in hits : \A j \in hits : i <= j

lookup_by_id(entries, wm_id) ==
    LET i == FirstIndex({k \in 1..Len(entries) : entries[k].wm_id = wm_id})
    IN  IF i = 0 THEN NoMatch ELSE Match(i, "id")

lookup_by_hash(entries, content_hash) ==
    LET i == FirstIndex({k \in 1..Len(entries) :
                            \/ entries[k].content_hash = content_hash
                            \/ entries[k].wm_content_hash = content_hash})
    IN  IF i = 0 THEN NoMatch ELSE Match(i, "exact_hash")

lookup_by_perceptual_image(entries, image, near) ==
    LET i == FirstIndex({k \in 1..Len(entries) :
                            /\ entries[k].data_type = "image"
                            /\ entries[k].phash # 0
                            /\ entries[k].phash = image.content
                            /\ near})
    IN  IF i = 0 THEN NoMatch ELSE Match(i, "perceptual_image")

lookup_by_perceptual_video(entries, video, near) ==
    LET i == FirstIndex({k \in 1..Len(entries) :
                            /\ entries[k].data_type = "video"
                            /\ entries[k].frame_hashes # 0
                            /\ entries[k].frame_hashes = video.content
                            /\ near})
    IN  IF i = 0 THEN NoMatch ELSE Match(i, "perceptual_video")

lookup_by_perceptual_audio(entries, audio, near) ==
    LET i == FirstIndex({k \in 1..Len(entries) :
                            /\ entries[k].data_type = "audio"
                            /\ entries[k].audio_fingerprint # 0
                            /\ entries[k].audio_fingerprint = audio.content
                            /\ near})
    IN  IF i = 0 THEN NoMatch ELSE Match(i, "perceptual_audio")

\* The first entry of the highest similarity above 0.40.
lookup_by_perceptual_text(entries, text) ==
    LET q      == text_shingles(text)
        Sim(i) == JaccardPair(q, entries[i].text_shingles)
        Ok(i)  == /\ entries[i].data_type = "text"
                  /\ entries[i].text_shingles # {}
                  /\ FracGreater(Sim(i), << 2, 5 >>)
        cand   == {i \in 1..Len(entries) : Ok(i)}
    IN  IF q = {} \/ cand = {} THEN NoMatch
        ELSE Match(CHOOSE i \in cand :
                       \A j \in cand :
                           /\ ~FracGreater(Sim(j), Sim(i))
                           /\ j < i => FracGreater(Sim(i), Sim(j)),
                   "perceptual_text")

lookup_content_perceptual_first(entries, data_type, content, near) ==
    LET perceptual ==
            IF data_type = "image"
            THEN lookup_by_perceptual_image(entries, content, near)
            ELSE IF data_type = "video"
            THEN lookup_by_perceptual_video(entries, content, near)
            ELSE IF data_type = "audio"
            THEN lookup_by_perceptual_audio(entries, content, near)
            ELSE IF data_type = "text"
            THEN lookup_by_perceptual_text(entries, content.text)
            ELSE NoMatch
    IN  IF perceptual.found THEN perceptual
        ELSE lookup_by_hash(entries, Sha256(content))

lookup_content(entries, data_type, content, near) ==
    LET exact == lookup_by_hash(entries, Sha256(content))
    IN  IF exact.found THEN exact
        ELSE IF data_type = "image"
             THEN lookup_by_perceptual_image(entries, content, near)
        ELSE IF data_type = "video"
             THEN lookup_by_perceptual_video(entries, content, near)
        ELSE IF data_type = "audio"
             THEN lookup_by_perceptual_audio(entries, content, near)
        ELSE IF data_type = "text"
             THEN lookup_by_perceptual_text(entries, content.text)
        ELSE NoMatch

\* ------------------------------------------------------------------------
\* API  (main.py)
\* ------------------------------------------------------------------------

WatermarkRequest(data_type, data, model_name, context) ==
    [data_type |-> data_type, data |-> data, model_name |-> model_name,
     context |-> context]

\* _dispatch_embed: the watermarked artifact.  The video branch passes no
\* context.
dispatch_embed(req, key, timestamp, now) ==
    IF req.data_type = "text"
    THEN [req.data EXCEPT
             !.text = embed_text_watermark(req.data.text, key, req.model_name,
                                           timestamp, req.context, now)]
    ELSE IF req.data_type = "image"
    THEN embed_image_watermark(req.data, key, req.model_name, timestamp,
                               req.context, now)
    ELSE IF req.data_type = "audio"
    THEN embed_audio_watermark(req.data, key, req.model_name, timestamp,
                               req.context, now)
    ELSE IF req.data_type = "video"
    THEN embed_video_watermark(req.data, key, req.model_name, timestamp, now)
    ELSE embed_pdf_watermark(req.data, key, req.model_name, timestamp,
                             req.context, now)

\* _dispatch_verify: the engine's result dict.
dispatch_verify(data_type, data, key, stat) ==
    IF data_type = "text" THEN verify_text_watermark(data.text, key)
    ELSE IF data_type = "image" THEN verify_image_watermark(data, key, stat)
    ELSE IF data_type = "audio" THEN verify_audio_watermark(data, key, stat)
    ELSE IF data_type = "video" THEN verify_video_watermark(data, key, stat)
    ELSE verify_pdf_watermark(data, key)

\* str.lower() of a context (ASCII letters).
Lower(s) == [i \in 1..Len(s) |-> IF s[i] >= 65 /\ s[i] <= 90 THEN s[i] + 32 ELSE s[i]]

\* a value is truthy: neither None nor empty
Truthy(s) == s # None /\ s # << >>

SENSITIVE_CONTEXTS ==
    {<< 109, 101, 100, 105, 99, 97, 108 >>,
     << 104, 101, 97, 108, 116, 104 >>,
     << 108, 101, 103, 97, 108 >>,
     << 102, 105, 110, 97, 110, 99, 101 >>,
     << 116, 101, 99, 104 >>,
     << 109, 105, 108, 105, 116, 97, 114, 121 >>,
     << 103, 111, 118, 101, 114, 110, 109, 101, 110, 116 >>,
     << 112, 105, 105 >>,
     << 104, 114 >>,
     << 114, 38, 100 >>,
     << 101, 100, 117, 99, 97, 116, 105, 111, 110 >>,
     << 98, 97, 110, 107, 105, 110, 103 >>,
     << 105, 110, 115, 117, 114, 97, 110, 99, 101 >>,
     << 112, 104, 97, 114, 109, 97 >>,
     << 99, 108, 105, 110, 105, 99, 97, 108 >>,
     << 106, 117, 100, 105, 99, 105, 97, 108 >>,
     << 100, 101, 102, 101, 110, 115, 101 >>,
     << 105, 110, 116, 101, 108, 108, 105, 103, 101, 110, 99, 101 >>,
     << 116, 97, 120 >>,
     << 97, 117, 100, 105, 116 >>,
     << 98, 105, 111, 109, 101, 116, 114, 105, 99 >>,
     << 101, 110, 101, 114, 103, 121 >>,
     << 116, 101, 108, 101, 99, 111, 109 >>,
     << 97, 118, 105, 97, 116, 105, 111, 110 >>,
     << 97, 117, 116, 111, 109, 111, 116, 105, 118, 101 >>,
     << 99, 121, 98, 101, 114 >>}

\* risk_score of verify_endpoint
RiskScore(watermark_detected, context_str) ==
    IF ~watermark_detected THEN 0
    ELSE IF Truthy(context_str) /\ Lower(context_str) \in SENSITIVE_CONTEXTS
         THEN 85
    ELSE IF Truthy(context_str) THEN 45
    ELSE 30

\* The registry entry and the response of watermark_endpoint.
WatermarkResult(req, wm_data, wm_id, payload, now) ==
    [entry |-> RegistryEntry(wm_id, req.data_type, req.data, wm_data,
                             req.model_name, req.context, payload, now),
     watermarked_data |-> wm_data,
     watermark_metadata |-> [watermark_id |-> wm_id,
                             model_name |-> req.model_name,
                             context |-> req.context, timestamp |-> now]]

WatermarkOutcome(req, key, now) ==
    WatermarkResult(
        req,
        dispatch_embed(req, key, IsoTimestamp(now), now),
        derive_wm_id(req.model_name,
                     TimestampToU32(IsoTimestamp(now), now), key),
        build_payload(req.model_name, IsoTimestamp(now), key, req.context, now),
        now)

NoWatermarkResponse ==
    [watermark_id |-> NoneId, model_name |-> None, context |-> None,
     timestamp |-> NoneInt]

\* The response of verify_endpoint from the engine's result stat_result and
\* the registry's answer m.  hint is the request's model_name.
\* tamper_detected = watermark_detected and not sig_valid
TamperDetected_unsigned(watermark_detected, sig_valid) == ~sig_valid

TamperDetected(watermark_detected, sig_valid) ==
    watermark_detected /\ ~sig_valid

VerifyResult(stat_result, m, entries, hint) ==
    LET e  == entries[m.index]
        watermark_detected == stat_result.detected \/ m.found
        sig_valid  == stat_result.signature_valid \/ m.found
        model0     == IF Truthy(stat_result.model_name)
                      THEN stat_result.model_name ELSE hint
        model_name == IF m.found /\ Truthy(e.model_name) THEN e.model_name
                      ELSE model0
        context_str == IF m.found /\ Truthy(e.context) THEN e.context
                       ELSE stat_result.context
        wm_id      == IF m.found THEN e.wm_id ELSE stat_result.wm_id
    IN  [watermark_detected   |-> watermark_detected,
         matched_watermark_id |-> wm_id,
         model_name           |-> model_name,
         context              |-> context_str,
         detection_source     |->
             IF m.found THEN "registry_" \o m.match_type
             ELSE IF stat_result.source = "absent" THEN "frequency_domain"
             ELSE stat_result.source,
         confidence           |->
             IF ~m.found THEN "engine"
             ELSE IF m.match_type = "exact_hash" THEN "0.95" ELSE "0.85",
         risk_score           |-> RiskScore(watermark_detected, context_str),
         signature_valid      |-> sig_valid,
         tamper_detected      |-> TamperDetected(watermark_detected, sig_valid),
         registry_match       |-> m.found]

\* The registry is asked only when the engine detected nothing.
RegistryFallback_always(stat_result, entries, data_type, data, near) ==
    lookup_content(entries, data_type, data, near)

RegistryFallback(stat_result, entries, data_type, data, near) ==
    IF stat_result.detected THEN NoMatch
    ELSE lookup_content(entries, data_type, data, near)

VerifyLookup(stat_result, entries, data_type, data, hint, near) ==
    VerifyResult(stat_result,
                 RegistryFallback(stat_result, entries, data_type, data, near),
                 entries, hint)

VerifyResponse(entries, data_type, data, hint, key, stat, near) ==
    VerifyLookup(dispatch_verify(data_type, data, key, stat),
                 entries, data_type, data, hint, near)

NoVerifyResponse ==
    [watermark_detected |-> FALSE, matched_watermark_id |-> NoneId,
     model_name |-> None, context |-> None, detection_source |-> "none",
     confidence |-> "none", risk_score |-> 0, signature_valid |-> FALSE,
     tamper_detected |-> FALSE, registry_match |-> FALSE]


\* ------------------------------------------------------------------------
\* State
\* ------------------------------------------------------------------------

VARIABLES
    now,    \* the wall clock, in Unix seconds (time.time(), _utc_now())
    pl,     \* a caller of the payload codec: its inputs, the bytes, the result
    tx,     \* a caller of the text engine: its inputs, the text, the result
    KEY,    \* the server's secret key (crypto_utils._DEFAULT_KEY)
    registry_file,  \* the entries of registry.json
    client, \* a client of the API: its last request, the artifact it holds,
            \* the last responses
    lock,   \* registry._lock: the thread that holds it, Unlocked when free
    tmp_file,  \* registry.json.tmp
    threads, \* the threads of the server process inside registry.py: where
            \* each one is, its arguments and its local variables
    io,     \* a caller of the registry on a registry.json of any content
    caller  \* a caller of one engine (PDF, or any engine on short content):
            \* its inputs, the content, the result

vars == << now, pl, tx, KEY, registry_file, client, lock, tmp_file, threads, io, caller >>

\* What the actions on pl, those on tx, and those of the API leave alone.
PlFrame == << now, tx, KEY, registry_file, client, lock, tmp_file, threads, io, caller >>

TxFrame == << now, pl, KEY, registry_file, client, lock, tmp_file, threads, io, caller >>

ApiFrame == << pl, tx, lock, tmp_file, threads, io, caller >>

\* ------------------------------------------------------------------------
\* Input domains
\* ------------------------------------------------------------------------

\* Secret keys (crypto_utils._DEFAULT_KEY of two deployments): "k1", "k2".
K1 == << 107, 49 >>

K2 == << 107, 50 >>

Keys == {K1, K2}

\* Longest model name and context tried, in code points.
MaxNameLen == 17

MaxCtxLen == 9

\* None, "", "a"*n, names ending in the two-byte character U+0131 (one of
\* them split by the 16-byte cut), and a name ending in NUL.
ModelNames ==
    {None} \cup {Rep(97, n) : n \in 0..MaxNameLen}
           \cup {Rep(97, n) \o << 305 >> : n \in {1, MODEL_LEN - 2, MODEL_LEN - 1}}
           \cup {<< 103, 0 >>}

\* None, "", "c"*n, "Tıp", and a context whose last character is split.
Contexts ==
    {None} \cup {Rep(99, n) : n \in 0..MaxCtxLen}
           \cup {<< 84, 305, 112 >>, Rep(99, CTX_LEN - 1) \o << 305 >>}

\* The clock at start: 1 700 000 000.
Clock0 == Wide(25939, 61696)

\* An ISO timestamp, one 2^32 seconds later (past the year 2106), and a
\* string that is no ISO timestamp.
Timestamps ==
    {IsoTimestamp(Clock0), IsoTimestamp(Wide(65536 + 25939, 61696)),
     BadTimestamp}

\* Longest text tried, in tokens.
MaxWords == 3

\* Every text of at most MaxWords tokens over Words, free of zero-width
\* characters.
Texts ==
    UNION {{[i \in 1..n |-> Token(f[i])] : f \in [1..n -> Words]} : n \in 0..MaxWords}

\* Threads of the server process that call into the registry at once.
NumThreads == 2

Threads == 1..NumThreads

\* _lock when no thread holds it.
Unlocked == 0

\* A file that does not exist; one just opened for writing, whose JSON
\* document is not complete yet; one that holds the whole list entries.
\* list tells whether the document is a JSON list.
NoFile ==
    [exists |-> FALSE, complete |-> FALSE, list |-> FALSE, entries |-> << >>]

EmptyFile ==
    [exists |-> TRUE, complete |-> FALSE, list |-> FALSE, entries |-> << >>]

FileOf(entries) ==
    [exists |-> TRUE, complete |-> TRUE, list |-> TRUE, entries |-> entries]

\* A file whose document is a JSON object, not a list.
ObjectFile ==
    [exists |-> TRUE, complete |-> TRUE, list |-> FALSE, entries |-> << >>]

\* _read_registry on a file: [] when it is missing, when json.load fails
\* and when the document is no list.
read_registry(file) ==
    IF file.exists /\ file.complete /\ file.list THEN file.entries ELSE << >>

\* A thread outside registry.py.  entry is the argument of its call to
\* register_watermark, entries its local list, result what a lookup
\* returned; overlapped tells whether another call was in progress when
\* this one was made.
NoEntry ==
    RegistryEntry(NoneId, "none", NoArtifact, NoArtifact, None, None, << >>, Clock0)

ThreadIdle ==
    [pc |-> "idle", entry |-> NoEntry, entries |-> << >>, result |-> NoMatch,
     overlapped |-> FALSE]

\* A caller of the registry on a registry.json of any content: the file
\* before its last call, the file now, the operation called and how it
\* ended.
IoIdle ==
    [before |-> NoFile, doc |-> NoFile, op |-> "none", raised |-> FALSE,
     value |-> NoMatch]

\* A client that has asked for nothing yet.  edited tells whether it has
\* changed the artifact it got; stat_result is what the engine returned to
\* verify_endpoint in its last verification.
ClientIdle ==
    [req |-> WatermarkRequest("none", NoArtifact, None, None),
     wkey |-> << >>, wres |-> NoWatermarkResponse, art |-> NoArtifact,
     edited |-> FALSE,
     vkey |-> << >>, vhint |-> None, stat_result |-> BaseResult,
     vres |-> NoVerifyResponse, pc |-> "start"]

\* A caller of the PDF engine before embed_pdf_watermark: stripped and
\* corrupt are the layers of its document that were removed and damaged.
CallerIdle ==
    [pc |-> "start", key |-> << >>, model_name |-> None, context |-> None,
     art |-> NoArtifact, stripped |-> {}, corrupt |-> {}, vkey |-> << >>,
     res |-> BaseResult]

TxIdle ==
    [pc |-> "start", text |-> << >>, key |-> << >>, model_name |-> None,
     context |-> None, wm |-> << >>, vkey |-> << >>, res |-> BaseResult,
     orig |-> << >>, edit |-> "none"]

\* ------------------------------------------------------------------------
\* A caller of the payload codec
\* ------------------------------------------------------------------------

NoInput ==
    [model_name |-> None, timestamp |-> BadTimestamp, key |-> << >>,
     context |-> None]

PlIdle ==
    [pc |-> "start", input |-> NoInput, raw |-> << >>, src |-> "none",
     key |-> << >>, out |-> ParseNone,
     ts_unix |-> NoneInt, raised |-> FALSE, wm_id |-> NoneId,
     again |-> << >>, later |-> FALSE, bits |-> << >>, back |-> << >>]

\* Byte positions (1-based) a corruption may hit: magic, timestamp, model,
\* context, tag.
CorruptPositions == {1, 3, 7, 23, 31, 34}

\* build_payload(model_name, timestamp, key, context)
Build(model_name, timestamp, key, context) ==
    /\ pl.pc = "start"
    /\ pl' = [pl EXCEPT
                !.pc = "have",
                !.input = [model_name |-> model_name, timestamp |-> timestamp,
                           key |-> key, context |-> context],
                !.raw = build_payload(model_name, timestamp, key, context, now),
                !.src = "built"]
    /\ UNCHANGED PlFrame

\* build_payload is called once more with the arguments of the first call;
\* later tells whether the wall clock has moved on by a second since.
BuildAgain(later) ==
    /\ pl.pc = "have" /\ pl.src = "built"
    /\ pl' = [pl EXCEPT
                !.pc = "rebuilt", !.later = later,
                !.again = build_payload(pl.input.model_name, pl.input.timestamp,
                                        pl.input.key, pl.input.context,
                                        IF later THEN WideSucc(now) ELSE now)]
    /\ UNCHANGED PlFrame

\* to_bits(raw) and from_bits of the result, for the bytes at hand: a
\* payload as built, damaged, cut short or extended.
Bits ==
    /\ pl.pc = "have"
    /\ pl' = [pl EXCEPT !.pc = "bits", !.bits = to_bits(pl.raw),
                        !.back = from_bits(to_bits(pl.raw))]
    /\ UNCHANGED PlFrame

\* Bytes with a wrong magic and a tag that is right for them under `key`.
Forge(key) ==
    /\ pl.pc = "start"
    /\ LET pre == << 87, 78 >> \o Rep(0, PRE_LEN - 2) IN
       pl' = [pl EXCEPT !.pc = "have", !.raw = pre \o HmacTag(key, pre),
                        !.src = "forged"]
    /\ UNCHANGED PlFrame

\* One byte of a built payload changes in storage or transit.
Corrupt(i) ==
    /\ pl.pc = "have" /\ pl.src = "built"
    /\ pl' = [pl EXCEPT !.raw = [pl.raw EXCEPT ![i] = (@ + 1) % 256],
                        !.src = "corrupt"]
    /\ UNCHANGED PlFrame

\* A built payload is cut to its first n bytes.
Truncate(n) ==
    /\ pl.pc = "have" /\ pl.src = "built"
    /\ pl' = [pl EXCEPT !.raw = Slice(pl.raw, 0, n), !.src = "truncated"]
    /\ UNCHANGED PlFrame

\* A byte follows a built payload.
Extend(b) ==
    /\ pl.pc = "have" /\ pl.src = "built"
    /\ pl' = [pl EXCEPT !.raw = pl.raw \o << b >>, !.src = "extended"]
    /\ UNCHANGED PlFrame

\* parse_payload(raw, key)
Parse(key) ==
    /\ pl.pc = "have"
    /\ pl' = [pl EXCEPT !.pc = "parsed", !.key = key,
                        !.out = parse_payload(pl.raw, key)]
    /\ UNCHANGED PlFrame

\* derive_wm_id(model_name, ts_unix, key): raised tells that the call
\* raised, wm_id is what it returned otherwise.
Derive(model_name, ts_unix, key) ==
    /\ pl.pc = "start"
    /\ pl' = [pl EXCEPT
                !.pc = "derived", !.key = key, !.ts_unix = ts_unix,
                !.input = [NoInput EXCEPT !.model_name = model_name],
                !.raised = derive_wm_id_raises(ts_unix),
                !.wm_id = IF derive_wm_id_raises(ts_unix) THEN NoneId
                          ELSE derive_wm_id(model_name, ts_unix, key)]
    /\ UNCHANGED PlFrame

InitPayload ==
    /\ now = WideSucc(Clock0)
    /\ pl = PlIdle
    /\ tx = TxIdle
    /\ KEY = K1
    /\ registry_file = << >>
    /\ client = ClientIdle
    /\ lock = Unlocked
    /\ tmp_file = NoFile
    /\ threads = [t \in Threads |-> ThreadIdle]
    /\ io = IoIdle
    /\ caller = CallerIdle

NextPayload ==
    \/ \E m \in ModelNames, t \in Timestamps, k \in Keys, c \in Contexts :
          Build(m, t, k, c)
    \/ \E later \in BOOLEAN : BuildAgain(later)
    \/ Bits
    \/ \E k \in Keys : Forge(k)
    \/ \E i \in CorruptPositions : Corrupt(i)
    \/ \E n \in {0, 2, PAYLOAD_BYTES - 1} : Truncate(n)
    \/ \E b \in {0, 255} : Extend(b)
    \/ \E k \in Keys : Parse(k)
    \/ \E m \in ModelNames, ts \in {NoneInt, Wide(0, 0), Clock0}, k \in Keys :
          Derive(m, ts, k)

SpecPayload == InitPayload /\ [][NextPayload]_vars

\* ------------------------------------------------------------------------
\* A caller of the text engine
\* ------------------------------------------------------------------------

\* "gpt-4o" and "medical"
TextModelNames == {None, << 103, 112, 116, 45, 52, 111 >>}

TextContexts == {None, << 109, 101, 100, 105, 99, 97, 108 >>}

\* embed_text_watermark(text, key, model_name=.., timestamp=_utc_now(), context=..)
EmbedText(text, key, model_name, context) ==
    /\ tx.pc = "start"
    /\ tx' = [tx EXCEPT
                !.pc = "embedded", !.text = text, !.key = key,
                !.model_name = model_name, !.context = context,
                !.wm = embed_text_watermark(text, key, model_name,
                                            IsoTimestamp(now), context, now),
                !.orig = embed_text_watermark(text, key, model_name,
                                              IsoTimestamp(now), context, now)]
    /\ UNCHANGED TxFrame

\* The indices of the tokens that carry one of the copies in lost:
\* copy_carriers[r] for r in lost.
CarriersOf(text, key, lost) ==
    {i \in 1..Len(text) :
        \E r \in lost : \E j \in 1..Len(CopyCarriers(text, key, r)) :
            CopyCarriers(text, key, r)[j] = i}

\* A zero-width character replaced by another one of ZW_SET.
AlteredZw(zw) == [q \in 1..Len(zw) |-> IF zw[q] = 8203 THEN 8204 ELSE 8203]

\* The copies in lost are destroyed in the watermarked text: their carrier
\* words are removed, or the zero-width characters of these words are
\* stripped or altered.  Every other token stays as it is.
LoseCopies(lost, how) ==
    /\ tx.pc = "embedded" /\ tx.edit = "none"
    /\ LET hit == CarriersOf(tx.text, tx.key, lost)
           kept == SelectSeq(Indices(Len(tx.wm)), LAMBDA i : i \notin hit)
       IN  tx' = [tx EXCEPT
                    !.edit = "copies",
                    !.wm = IF how = "removed"
                           THEN [j \in 1..Len(kept) |-> tx.wm[kept[j]]]
                           ELSE [i \in 1..Len(tx.wm) |->
                                   IF i \notin hit THEN tx.wm[i]
                                   ELSE IF how = "stripped"
                                   THEN [tx.wm[i] EXCEPT !.zw = << >>]
                                   ELSE [tx.wm[i] EXCEPT !.zw = AlteredZw(@)]]]
    /\ UNCHANGED TxFrame

\* The tokens of the watermarked text that are no carrier words under the
\* embedding key.
NonCarriers(text, key) == {i \in 1..Len(text) : ~is_carrier(text[i].w, key)}

\* The non-carrier words at the indices in gone are deleted from the
\* watermarked text.
DeleteWords(gone) ==
    /\ tx.pc = "embedded" /\ tx.edit = "none"
    /\ gone # {} /\ gone \subseteq NonCarriers(tx.wm, tx.key)
    /\ LET kept == SelectSeq(Indices(Len(tx.wm)), LAMBDA i : i \notin gone)
       IN  tx' = [tx EXCEPT !.edit = "words",
                            !.wm = [j \in 1..Len(kept) |-> tx.wm[kept[j]]]]
    /\ UNCHANGED TxFrame

\* verify_text_watermark(watermarked_text, key)
VerifyText(key) ==
    /\ tx.pc = "embedded"
    /\ tx' = [tx EXCEPT !.pc = "verified", !.vkey = key,
                        !.res = verify_text_watermark(tx.wm, key)]
    /\ UNCHANGED TxFrame

InitText ==
    /\ now = Clock0
    /\ pl = PlIdle
    /\ tx = TxIdle
    /\ KEY = K1
    /\ registry_file = << >>
    /\ client = ClientIdle
    /\ lock = Unlocked
    /\ tmp_file = NoFile
    /\ threads = [t \in Threads |-> ThreadIdle]
    /\ io = IoIdle
    /\ caller = CallerIdle

NextText ==
    \/ \E t \in Texts, k \in Keys, m \in TextModelNames, c \in TextContexts :
          EmbedText(t, k, m, c)
    \/ \E lost \in {c \in SUBSET (0..(REDUNDANCY - 1)) : Cardinality(c) = 2},
          how \in {"removed", "stripped", "altered"} : LoseCopies(lost, how)
    \/ \E gone \in SUBSET (1..MaxWords) : DeleteWords(gone)
    \/ \E k \in Keys : VerifyText(k)

SpecText == InitText /\ [][NextText]_vars

\* ------------------------------------------------------------------------
\* A caller of the PDF engine
\* ------------------------------------------------------------------------

PdfFrame ==
    << now, pl, tx, KEY, registry_file, client, lock, tmp_file, threads, io >>

\* The layers in the order verify_pdf_watermark tries them.
PdfLayers == << "metadata", "keywords", "annotation" >>

\* The field of the document that holds a layer, and the document with
\* that field set.
LayerField(pdf, layer) ==
    IF layer = "metadata" THEN pdf.meta
    ELSE IF layer = "keywords" THEN pdf.keywords
    ELSE pdf.annots

WithLayer(pdf, layer, field) ==
    IF layer = "metadata" THEN [pdf EXCEPT !.meta = field]
    ELSE IF layer = "keywords" THEN [pdf EXCEPT !.keywords = field]
    ELSE [pdf EXCEPT !.annots = field]

\* embed_pdf_watermark(pdf_b64, key, model_name=.., timestamp=_utc_now(), context=..)
EmbedPdf(key, model_name, context) ==
    /\ caller.pc = "start"
    /\ caller' = [caller EXCEPT
                    !.pc = "embedded", !.key = key,
                    !.model_name = model_name, !.context = context,
                    !.art = embed_pdf_watermark(Artifact("pdf", << >>, 1), key,
                                model_name, IsoTimestamp(now), context, now)]
    /\ UNCHANGED PdfFrame

\* A tool removes one layer of the watermarked document.
StripLayer(layer) ==
    /\ caller.pc = "embedded"
    /\ layer \notin caller.stripped \cup caller.corrupt
    /\ caller' = [caller EXCEPT
                    !.stripped = @ \cup {layer},
                    !.art = WithLayer(@, layer, << >>)]
    /\ UNCHANGED PdfFrame

\* One layer of the watermarked document is damaged: a byte of its payload
\* changes, its end is cut off, or (the metadata field) it is overwritten
\* with text that is no hex string.
CorruptLayer(layer, kind) ==
    /\ caller.pc = "embedded"
    /\ layer \notin caller.stripped \cup caller.corrupt
    /\ kind = "nonhex" => layer = "metadata"
    /\ caller' = [caller EXCEPT
                    !.corrupt = @ \cup {layer},
                    !.art = WithLayer(@, layer,
                              IF kind = "altered"
                              THEN [LayerField(@, layer) EXCEPT
                                      ![7] = (@ + 1) % 256]
                              ELSE IF kind = "truncated"
                              THEN Slice(LayerField(@, layer), 0,
                                         PAYLOAD_BYTES - 1)
                              ELSE << 256 >>)]
    /\ UNCHANGED PdfFrame

\* verify_pdf_watermark(pdf_b64, key)
VerifyPdf(key) ==
    /\ caller.pc = "embedded"
    /\ caller' = [caller EXCEPT !.pc = "verified", !.vkey = key,
                                !.res = verify_pdf_watermark(caller.art, key)]
    /\ UNCHANGED PdfFrame

InitPdf ==
    /\ now = Clock0
    /\ pl = PlIdle
    /\ tx = TxIdle
    /\ KEY = K1
    /\ registry_file = << >>
    /\ client = ClientIdle
    /\ lock = Unlocked
    /\ tmp_file = NoFile
    /\ threads = [t \in Threads |-> ThreadIdle]
    /\ io = IoIdle
    /\ caller = CallerIdle

NextPdf ==
    \/ \E k \in Keys, m \in TextModelNames, c \in TextContexts : EmbedPdf(k, m, c)
    \/ \E l \in {"metadata", "keywords", "annotation"} : StripLayer(l)
    \/ \E l \in {"metadata", "keywords", "annotation"},
          kind \in {"altered", "truncated", "nonhex"} : CorruptLayer(l, kind)
    \/ \E k \in Keys : VerifyPdf(k)

SpecPdf == InitPdf /\ [][NextPdf]_vars

\* ------------------------------------------------------------------------
\* Callers of the engines on short content
\* ------------------------------------------------------------------------

\* Longest clip tried, in samples per channel.
MaxSamples == 26

\* engine and op name the call, n is the size of the content (tokens,
\* frames, samples), copy_idx the QIM copy the audio engine is at, bins the
\* spectrum indices it used, raised and detected the outcome.
ShortIdle ==
    [pc |-> "start", engine |-> "none", op |-> "none", key |-> << >>, n |-> 0,
     copy_idx |-> 0, bins |-> {}, raised |-> FALSE, detected |-> FALSE]

\* embed_text_watermark / verify_text_watermark on a text with no token
ShortText(op, key) ==
    /\ caller.pc = "start"
    /\ caller' = [caller EXCEPT
                    !.pc = "returned", !.engine = "text", !.op = op, !.key = key,
                    !.detected =
                        IF op = "embed" THEN FALSE
                        ELSE verify_text_watermark(
                                 embed_text_watermark(<< >>, key, None,
                                     IsoTimestamp(now), None, now), key).detected]
    /\ UNCHANGED PdfFrame

\* embed_video_watermark / verify_video_watermark on a file with no frame
ShortVideo(op, key, stat) ==
    /\ caller.pc = "start"
    /\ caller' = [caller EXCEPT
                    !.pc = "returned", !.engine = "video", !.op = op, !.key = key,
                    !.detected =
                        IF op = "embed" THEN FALSE
                        ELSE verify_video_frames(0, Artifact("video", << >>, 0),
                                                 key, stat).detected]
    /\ UNCHANGED PdfFrame

\* embed_audio_watermark / verify_audio_watermark on a clip of n_samples:
\* up to the loop over the copies.
ShortAudio(op, key, n_samples) ==
    /\ caller.pc = "start"
    /\ caller' = [caller EXCEPT !.pc = "qim", !.engine = "audio", !.op = op,
                                !.key = key, !.n = n_samples]
    /\ UNCHANGED PdfFrame

\* One pass of the loop over the copies: the bins of copy_idx are read
\* (and written, when embedding); f is one of them.
AudioCopy(f) ==
    /\ caller.pc = "qim" /\ caller.copy_idx < AUD_COPIES
    /\ f \in aud_qim_positions(NFreqs(caller.n), caller.copy_idx)
    /\ caller' = [caller EXCEPT
                    !.bins = @ \cup {f},
                    !.raised = QimRaises(caller.copy_idx, NFreqs(caller.n), f),
                    !.pc = IF QimRaises(caller.copy_idx, NFreqs(caller.n), f)
                           THEN "raised" ELSE "qim",
                    !.copy_idx = @ + 1]
    /\ UNCHANGED PdfFrame

\* The audio engine returns: detected = stat_detected or sig_valid.
AudioReturn(stat) ==
    /\ caller.pc = "qim" /\ caller.copy_idx = AUD_COPIES
    /\ caller' = [caller EXCEPT !.pc = "returned",
                                !.detected = (caller.op = "verify" /\ stat)]
    /\ UNCHANGED PdfFrame

InitShort ==
    /\ now = Clock0
    /\ pl = PlIdle
    /\ tx = TxIdle
    /\ KEY = K1
    /\ registry_file = << >>
    /\ client = ClientIdle
    /\ lock = Unlocked
    /\ tmp_file = NoFile
    /\ threads = [t \in Threads |-> ThreadIdle]
    /\ io = IoIdle
    /\ caller = ShortIdle

NextShort ==
    \/ \E op \in {"embed", "verify"}, k \in Keys : ShortText(op, k)
    \/ \E op \in {"embed", "verify"}, k \in Keys, stat \in BOOLEAN :
          ShortVideo(op, k, stat)
    \/ \E op \in {"embed", "verify"}, k \in Keys, n \in 1..MaxSamples :
          ShortAudio(op, k, n)
    \/ \E f \in 0..(3 * MaxSamples) : AudioCopy(f)
    \/ \E stat \in BOOLEAN : AudioReturn(stat)

SpecShort == InitShort /\ [][NextShort]_vars

\* ------------------------------------------------------------------------
\* The embed pipelines of picture, sound and film, statement by statement
\* ------------------------------------------------------------------------

SAMPLE_EVERY == 10

PAYLOAD_FRAMES == 5

\* Most frames of a film.
MaxFrames == 12

\* A plane (the Y channel of a picture, the spectrum of a sound, a frame of
\* a film) is the sequence of the passes that have written to it.
\* The statistical pass: C[mid band] += alpha * mask.
apply_dct_stat(plane) == Append(plane, "stat")

\* The payload pass followed by one more statistical pass.
embed_qim_then_stat(plane) == plane \o << "qim", "stat" >>

\* The payload pass: q = round(C / step), moved to the parity of the bit.
embed_qim(plane) == Append(plane, "qim")

\* np.clip(...).astype(integer type) of the finished plane
clip(plane) == Append(plane, "clip")

\* round(i * n_frames / 5) % n_frames for i = 0..4
key_frame_indices_round(n_frames) ==
    [k \in 1..PAYLOAD_FRAMES |->
        ((2 * (k - 1) * n_frames + PAYLOAD_FRAMES) \div (2 * PAYLOAD_FRAMES))
            % n_frames]

\* int(i * max(1, n_frames / 5)) % n_frames for i = 0..4
key_frame_indices(n_frames) ==
    [k \in 1..PAYLOAD_FRAMES |->
        (IF n_frames <= PAYLOAD_FRAMES THEN k - 1
         ELSE ((k - 1) * n_frames) \div PAYLOAD_FRAMES) % n_frames]

EmbedIdle ==
    [pc |-> "start", engine |-> "none", plane |-> << >>, c |-> 0,
     total |-> 0, idx |-> 0, kf |-> << >>, kf_set |-> {}, written |-> 0]

\* embed_image_watermark
EmbedImage ==
    /\ \/ /\ caller.pc = "start"
          /\ caller' = [caller EXCEPT !.pc = "img_stat", !.engine = "image"]
       \/ /\ caller.pc = "img_stat"
          /\ caller' = [caller EXCEPT
                          !.pc = "img_qim",
                          !.plane = clip(apply_dct_stat(caller.plane))]
       \/ /\ caller.pc = "img_qim"
          /\ caller' = [caller EXCEPT !.pc = "img_save",
                                      !.plane = embed_qim(caller.plane)]
       \/ /\ caller.pc = "img_save"
          /\ caller' = [caller EXCEPT !.pc = "done",
                                      !.plane = clip(caller.plane)]
    /\ UNCHANGED PdfFrame

\* embed_audio_watermark, on a clip long enough for its bands
EmbedAudio ==
    /\ \/ /\ caller.pc = "start"
          /\ caller' = [caller EXCEPT !.pc = "aud_stat", !.engine = "audio"]
       \/ /\ caller.pc = "aud_stat"
          /\ caller' = [caller EXCEPT !.pc = "aud_steps",
                                      !.plane = apply_dct_stat(caller.plane)]
       \/ /\ caller.pc = "aud_steps"
          /\ caller' = [caller EXCEPT !.pc = "aud_qim", !.c = 0]
       \/ /\ caller.pc = "aud_qim" /\ caller.c < AUD_COPIES
          /\ caller' = [caller EXCEPT !.c = @ + 1,
                                      !.plane = embed_qim(caller.plane)]
       \/ /\ caller.pc = "aud_qim" /\ caller.c = AUD_COPIES
          /\ caller' = [caller EXCEPT !.pc = "done",
                                      !.plane = clip(caller.plane)]
    /\ UNCHANGED PdfFrame

\* embed_video_watermark on a film of `total` frames, with _process_frame
EmbedVideo(total) ==
    /\ \/ /\ caller.pc = "start"
          /\ caller' = [caller EXCEPT
                          !.pc = "vid_read", !.engine = "video",
                          !.total = total, !.idx = 0,
                          !.kf = IF total > 0 THEN key_frame_indices(total)
                                 ELSE << >>,
                          !.kf_set = IF total > 0
                                     THEN {key_frame_indices(total)[k] :
                                              k \in 1..PAYLOAD_FRAMES}
                                     ELSE {}]
       \/ /\ caller.pc = "vid_read" /\ caller.idx < caller.total
          /\ total = caller.total
          /\ caller' = [caller EXCEPT !.pc = "vid_stat", !.plane = << >>]
       \/ /\ caller.pc = "vid_read" /\ caller.idx = caller.total
          /\ total = caller.total
          /\ caller' = [caller EXCEPT !.pc = "done"]
       \/ /\ caller.pc = "vid_stat"
          /\ total = caller.total
          /\ caller' = [caller EXCEPT
                          !.pc = "vid_qim",
                          !.plane = IF caller.idx % SAMPLE_EVERY = 0
                                    THEN clip(apply_dct_stat(caller.plane))
                                    ELSE caller.plane]
       \/ /\ caller.pc = "vid_qim"
          /\ total = caller.total
          /\ caller' = [caller EXCEPT
                          !.pc = "vid_write",
                          !.plane = IF caller.idx \in caller.kf_set
                                    THEN clip(embed_qim(caller.plane))
                                    ELSE caller.plane]
       \/ /\ caller.pc = "vid_write"
          /\ total = caller.total
          /\ caller' = [caller EXCEPT !.pc = "vid_read", !.idx = @ + 1,
                                      !.written = @ + 1]
    /\ UNCHANGED PdfFrame

InitEmbed ==
    /\ now = Clock0
    /\ pl = PlIdle
    /\ tx = TxIdle
    /\ KEY = K1
    /\ registry_file = << >>
    /\ client = ClientIdle
    /\ lock = Unlocked
    /\ tmp_file = NoFile
    /\ threads = [t \in Threads |-> ThreadIdle]
    /\ io = IoIdle
    /\ caller = EmbedIdle

NextEmbed ==
    \/ EmbedImage
    \/ EmbedAudio
    \/ \E total \in 0..MaxFrames : EmbedVideo(total)

SpecEmbed == InitEmbed /\ [][NextEmbed]_vars

\* Both layers are written to the plane at hand.
BothLayers ==
    \/ caller.engine \in {"image", "audio"}
    \/ /\ caller.engine = "video"
       /\ caller.idx % SAMPLE_EVERY = 0
       /\ caller.idx \in caller.kf_set

\* C23: on a plane that gets both layers, the statistical pass is made
\* before the first payload pass, and no statistical pass is made after a
\* payload pass.
C23_StatBeforeQim ==
    \A j \in DOMAIN caller.plane :
        caller.plane[j] = "qim" =>
            /\ \A i \in (j + 1)..Len(caller.plane) : caller.plane[i] # "stat"
            /\ BothLayers => \E i \in 1..(j - 1) : caller.plane[i] = "stat"

\* A frame of a film that is both a sampled frame and a key frame has got
\* both layers.
C23_Witness ==
    /\ caller.engine = "video" /\ caller.pc = "vid_write" /\ BothLayers
    /\ caller.plane = << "stat", "clip", "qim", "clip" >>

\* C25 as stated: the key frames of a film of n >= 1 frames are
\* round(i * n / 5) mod n for i = 0..4, each in [0, n).
C25_KeyFramesRounded ==
    (caller.engine = "video" /\ caller.total >= 1) =>
        /\ caller.kf = key_frame_indices_round(caller.total)
        /\ \A k \in 1..PAYLOAD_FRAMES : caller.kf[k] \in 0..(caller.total - 1)

\* C25: the key frames of a film of n >= 1 frames are i mod n for n <= 5
\* and floor(i * n / 5) for n > 5, i = 0..4, each in [0, n).
C25_KeyFramesTruncated ==
    (caller.engine = "video" /\ caller.total >= 1) =>
        /\ Len(caller.kf) = PAYLOAD_FRAMES
        /\ \A k \in 1..PAYLOAD_FRAMES :
              /\ caller.kf[k] \in 0..(caller.total - 1)
              /\ caller.total <= PAYLOAD_FRAMES =>
                    caller.kf[k] = (k - 1) % caller.total
              /\ caller.total > PAYLOAD_FRAMES =>
                    /\ PAYLOAD_FRAMES * caller.kf[k] <= (k - 1) * caller.total
                    /\ (k - 1) * caller.total < PAYLOAD_FRAMES * (caller.kf[k] + 1)

\* A film of 7 frames: 2.8 is cut to 2 and 5.6 to 5.
C25_Witness ==
    /\ caller.engine = "video" /\ caller.total = 7 /\ caller.pc = "done"
    /\ caller.kf = << 0, 1, 2, 4, 5 >>

\* ------------------------------------------------------------------------
\* The positions of the payload bits in a frame of a film
\* ------------------------------------------------------------------------

\* Height and width of the frames: 2 x 2, 4 x 4, 1 x 17 and 5 x 5 blocks.
FrameSizes == { << 16, 16 >>, << 33, 39 >>, << 8, 136 >>, << 40, 40 >> }

\* Number of (br, bc, u, v) there are to draw from
NumPositions(H, W) == Max(1, H \div 8) * Max(1, W \div 8) * 16

\* The stream of np.random.RandomState(seed): its t-th draw of
\* (randint(0, nb_h), randint(0, nb_w), randint(1, 5), randint(1, 5)).
\* Every value is drawn in the end, each twice in a row, from a start and
\* with a stride that the key decides.
RngDraw(key, H, W, t) ==
    LET nb_w == Max(1, W \div 8)
        p == IF key = K1 THEN (t \div 2) % NumPositions(H, W)
             ELSE (5 + 3 * (t \div 2)) % NumPositions(H, W)
    IN  << p \div (16 * nb_w), (p \div 16) % nb_w,
           1 + ((p \div 4) % 4), 1 + (p % 4) >>

QimIdle ==
    [pc |-> "start", key |-> << >>, H |-> 0, W |-> 0, rng |-> 0,
     seen |-> {}, pos_l |-> << >>]

\* _qim_positions(key, H, W), not cached: up to the loop
QimBegin(key, H, W) ==
    /\ caller.pc = "start"
    /\ caller' = [caller EXCEPT !.pc = "loop", !.key = key, !.H = H, !.W = W]
    /\ UNCHANGED PdfFrame

\* One pass of `while len(brs_l) < PAYLOAD_BITS`
QimDraw ==
    /\ caller.pc = "loop"
    /\ Len(caller.pos_l) < PAYLOAD_BITS
    /\ LET pos == RngDraw(caller.key, caller.H, caller.W, caller.rng)
           rng == (caller.rng + 1) % (2 * NumPositions(caller.H, caller.W))
       IN  \/ /\ pos \notin caller.seen
              /\ caller' = [caller EXCEPT !.rng = rng,
                                          !.seen = @ \cup {pos},
                                          !.pos_l = Append(@, pos)]
           \/ /\ pos \in caller.seen
              /\ caller' = [caller EXCEPT !.rng = rng]
    /\ UNCHANGED PdfFrame

\* The loop is left and the positions are returned.
QimReturn ==
    /\ caller.pc = "loop"
    /\ Len(caller.pos_l) >= PAYLOAD_BITS
    /\ caller' = [caller EXCEPT !.pc = "done"]
    /\ UNCHANGED PdfFrame

InitQim ==
    /\ now = Clock0
    /\ pl = PlIdle
    /\ tx = TxIdle
    /\ KEY = K1
    /\ registry_file = << >>
    /\ client = ClientIdle
    /\ lock = Unlocked
    /\ tmp_file = NoFile
    /\ threads = [t \in Threads |-> ThreadIdle]
    /\ io = IoIdle
    /\ caller = QimIdle

NextQim ==
    \/ \E k \in Keys, size \in FrameSizes : QimBegin(k, size[1], size[2])
    \/ QimDraw
    \/ QimReturn

\* The interpreter keeps running the call.
SpecQim == InitQim /\ [][NextQim]_vars /\ WF_vars(NextQim)

\* C24: for every frame size _qim_positions returns, and what it returns
\* is 272 different positions with u, v in 1..4 and the block inside the
\* grid of H \div 8 by W \div 8 blocks.
C24_QimPositionsTerminate ==
    /\ (caller.pc = "loop") ~> (caller.pc = "done")
    /\ [](caller.pc = "done" =>
            /\ Len(caller.pos_l) = PAYLOAD_BITS
            /\ \A i, j \in 1..PAYLOAD_BITS :
                  i # j => caller.pos_l[i] # caller.pos_l[j]
            /\ \A i \in 1..PAYLOAD_BITS :
                  /\ caller.pos_l[i][1] \in 0..((caller.H \div 8) - 1)
                  /\ caller.pos_l[i][2] \in 0..((caller.W \div 8) - 1)
                  /\ caller.pos_l[i][3] \in 1..4
                  /\ caller.pos_l[i][4] \in 1..4)

\* ------------------------------------------------------------------------
\* The vote of verify_text_watermark over the copies it has read
\* ------------------------------------------------------------------------

\* What the extraction loop may leave in copy_bits[r]: nothing, a copy two
\* bits short, a whole copy, a copy with two bits more.
CopyChoices ==
    { << >>, Rep(0, PAYLOAD_BITS - 2), Rep(1, PAYLOAD_BITS - 2),
      Rep(0, PAYLOAD_BITS), Rep(1, PAYLOAD_BITS),
      [i \in 1..PAYLOAD_BITS |-> i % 2], Rep(1, PAYLOAD_BITS + 2) }

VoteIdle == [pc |-> "start", copy_bits |-> << >>, complete |-> << >>, voted |-> << >>]

\* The extraction loop has filled copy_bits.
Extracted(c0, c1, c2, c3, c4) ==
    /\ caller.pc = "start"
    /\ caller' = [caller EXCEPT !.pc = "extracted",
                                !.copy_bits = << c0, c1, c2, c3, c4 >>]
    /\ UNCHANGED PdfFrame

\* `complete = ...` and, if there is a complete copy, `voted = ...`
Vote ==
    /\ caller.pc = "extracted"
    /\ LET complete == Complete(caller.copy_bits)
       IN  caller' = [caller EXCEPT
                        !.pc = "voted", !.complete = complete,
                        !.voted = IF complete # << >>
                                  THEN MajorityVote(complete) ELSE << >>]
    /\ UNCHANGED PdfFrame

InitVote ==
    /\ now = Clock0
    /\ pl = PlIdle
    /\ tx = TxIdle
    /\ KEY = K1
    /\ registry_file = << >>
    /\ client = ClientIdle
    /\ lock = Unlocked
    /\ tmp_file = NoFile
    /\ threads = [t \in Threads |-> ThreadIdle]
    /\ io = IoIdle
    /\ caller = VoteIdle

NextVote ==
    \/ \E c0, c1, c2, c3, c4 \in CopyChoices : Extracted(c0, c1, c2, c3, c4)
    \/ Vote

SpecVote == InitVote /\ [][NextVote]_vars

\* The copies of at least 272 bits
LongCopies == {r \in 1..REDUNDANCY : Len(caller.copy_bits[r]) >= PAYLOAD_BITS}

\* C26: the vote is taken over the copies of at least 272 bits, cut to 272,
\* and over nothing else; a voted bit is 1 iff more than half of these
\* copies have a 1 there, so a tie gives 0; with no such copy no vote is
\* taken.
C26_VoteOverCompleteCopies ==
    caller.pc = "voted" =>
        /\ Len(caller.complete) = Cardinality(LongCopies)
        /\ \A j \in DOMAIN caller.complete :
              Len(caller.complete[j]) = PAYLOAD_BITS
        /\ LongCopies = {} => caller.voted = << >>
        /\ LongCopies # {} =>
              /\ Len(caller.voted) = PAYLOAD_BITS
              /\ \A i \in 1..PAYLOAD_BITS :
                    caller.voted[i] = 1 <=>
                        2 * Cardinality({r \in LongCopies :
                                            caller.copy_bits[r][i] = 1})
                            > Cardinality(LongCopies)
              /\ \A i \in 1..PAYLOAD_BITS : caller.voted[i] \in {0, 1}

\* A tie between two complete copies, next to two short copies of ones:
\* the voted bits are 0.
C26_Witness ==
    /\ caller.pc = "voted"
    /\ caller.copy_bits = << Rep(0, PAYLOAD_BITS), Rep(1, PAYLOAD_BITS),
                             Rep(1, PAYLOAD_BITS - 2), << >>,
                             Rep(1, PAYLOAD_BITS - 2) >>
    /\ caller.voted = Rep(0, PAYLOAD_BITS)

\* ------------------------------------------------------------------------
\* The lookup of a film by the hashes of its frames
\* ------------------------------------------------------------------------

\* Most hashes in a list of frame hashes (the code samples 8 frames).
MaxHashes == 4

\* A frame hash h stands for the 256-bit hash whose first 32 * h bits are
\* set: two of them differ in 32 * |h1 - h2| bits.
hamming_distance(h1, h2) == IF h1 >= h2 THEN 32 * (h1 - h2) ELSE 32 * (h2 - h1)

\* The lists of frame hashes of a query, and of an entry of the registry.
QueryHashLists ==
    UNION {[1..n -> {0, 3}] : n \in 1..MaxHashes}

RegHashLists ==
    UNION {[1..n -> {0, 1}] : n \in {0, 1, 2, MaxHashes}}

\* `matches` after the two loops over query_hashes and reg_hashes
FrameMatches(query_hashes, reg_hashes) ==
    Cardinality({i \in DOMAIN query_hashes :
                    \E j \in DOMAIN reg_hashes :
                        hamming_distance(query_hashes[i], reg_hashes[j]) <= 64})

\* ratio = matches / max(total, 1), with total = min(len(query), len(reg))
MatchRatio(query_hashes, reg_hashes) ==
    << FrameMatches(query_hashes, reg_hashes),
       Max(Min(Len(query_hashes), Len(reg_hashes)), 1) >>

\* The loop over the entries from index k on: best_match (an index, 0 for
\* None) and best_score.
RECURSIVE BestVideo(_, _, _, _)
BestVideo(query_hashes, frame_hashes, k, best) ==
    IF k > Len(frame_hashes) THEN best
    ELSE IF frame_hashes[k] = << >>
         THEN BestVideo(query_hashes, frame_hashes, k + 1, best)
         ELSE LET ratio == MatchRatio(query_hashes, frame_hashes[k])
              IN  IF FracGreater(ratio, best.score)
                  THEN BestVideo(query_hashes, frame_hashes, k + 1,
                                 [index |-> k, score |-> ratio])
                  ELSE BestVideo(query_hashes, frame_hashes, k + 1, best)

\* lookup_by_perceptual_video with min_frame_match = 0.5, on the hashes of
\* the query and the frame_hashes of the video entries of the registry.
lookup_by_frame_hashes(query_hashes, frame_hashes) ==
    IF query_hashes = << >> THEN NoMatch
    ELSE LET best == BestVideo(query_hashes, frame_hashes, 1,
                               [index |-> 0, score |-> << 1, 2 >>])
         IN  IF best.index = 0 THEN NoMatch
             ELSE Match(best.index, "perceptual_video")

FramesIdle ==
    [pc |-> "start", query_hashes |-> << >>, frame_hashes |-> << >>,
     res |-> NoMatch]

LookupVideo(query_hashes, frame_hashes) ==
    /\ caller.pc = "start"
    /\ caller' = [caller EXCEPT
                    !.pc = "returned", !.query_hashes = query_hashes,
                    !.frame_hashes = frame_hashes,
                    !.res = lookup_by_frame_hashes(query_hashes, frame_hashes)]
    /\ UNCHANGED PdfFrame

InitFrames ==
    /\ now = Clock0
    /\ pl = PlIdle
    /\ tx = TxIdle
    /\ KEY = K1
    /\ registry_file = << >>
    /\ client = ClientIdle
    /\ lock = Unlocked
    /\ tmp_file = NoFile
    /\ threads = [t \in Threads |-> ThreadIdle]
    /\ io = IoIdle
    /\ caller = FramesIdle

NextFrames ==
    \/ \E q \in QueryHashLists, r1 \in RegHashLists :
          LookupVideo(q, << r1 >>)
    \/ \E q \in QueryHashLists, r1, r2 \in RegHashLists :
          LookupVideo(q, << r1, r2 >>)

SpecFrames == InitFrames /\ [][NextFrames]_vars

\* C28: the lookup matches iff for some video entry at least half of the
\* query's frame hashes find a frame hash of the entry within Hamming
\* distance 64; exactly half is a match.
C28_HalfOfQueryFramesMatch ==
    caller.pc = "returned" =>
        (caller.res.found <=>
            \E k \in DOMAIN caller.frame_hashes :
                /\ caller.frame_hashes[k] # << >>
                /\ 2 * FrameMatches(caller.query_hashes, caller.frame_hashes[k])
                      >= Len(caller.query_hashes))

\* ------------------------------------------------------------------------
\* The API: a server, its registry file and a client
\* ------------------------------------------------------------------------

\* Most entries the registry is let grow to, and most seconds the clock is
\* let advance.
MaxEntries == 2

MaxTicks == 1

\* "gpt-4o", and a name whose 16th byte is the first half of U+0131.
Gpt4o == << 103, 112, 116, 45, 52, 111 >>

SplitName == Rep(97, MODEL_LEN - 1) \o << 305 >>

Medical == << 109, 101, 100, 105, 99, 97, 108 >>


\* Texts of two carriers (under K1), and of three green words that are no
\* carriers (under K1); one picture, sound, film and document.
ApiData ==
    {Artifact("text", << Token(1), Token(2) >>, 0),
     Artifact("text", << Token(3), Token(3), Token(3) >>, 0),
     Artifact("image", << >>, 1), Artifact("audio", << >>, 1),
     Artifact("video", << >>, 1), Artifact("pdf", << >>, 1)}

\* Each of them from "gpt-4o" in the context "medical"; a text under the
\* split name; a document with neither model name nor context.
Requests ==
    {WatermarkRequest(d.data_type, d, Gpt4o, Medical) : d \in ApiData}
    \cup {WatermarkRequest("text", Artifact("text", << Token(1), Token(2) >>, 0),
                           SplitName, None),
          WatermarkRequest("pdf", Artifact("pdf", << >>, 1), None, None)}

\* The model_name hints of a verify request: none and "h".
Hints == {None, << 104 >>}

\* POST /api/watermark: watermark_endpoint, with its register_watermark.
WatermarkDone(req, out) ==
    /\ registry_file' = Registered(registry_file, out.entry)
    /\ client' = [client EXCEPT
                     !.req = req, !.wkey = KEY,
                     !.wres = out.watermark_metadata,
                     !.art = out.watermarked_data, !.edited = FALSE,
                     !.vkey = << >>, !.vhint = None,
                     !.stat_result = BaseResult,
                     !.vres = NoVerifyResponse, !.pc = "watermarked"]

WatermarkReq(req) ==
    /\ Len(registry_file) < MaxEntries
    /\ WatermarkDone(req, WatermarkOutcome(req, KEY, now))
    /\ UNCHANGED << now, KEY >>
    /\ UNCHANGED ApiFrame

\* POST /api/verify: verify_endpoint on the artifact the client holds.
\* stat and near are the outcomes of the correlation test and of the
\* perceptual comparison.
VerifyDone(stat_result, hint, near) ==
    client' = [client EXCEPT
                  !.vkey = KEY, !.vhint = hint, !.pc = "verified",
                  !.stat_result = stat_result,
                  !.vres = VerifyLookup(stat_result, registry_file,
                                        client.art.data_type, client.art,
                                        hint, near)]

VerifyReq(hint, stat, near) ==
    /\ client.pc \in {"watermarked", "verified"}
    /\ VerifyDone(dispatch_verify(client.art.data_type, client.art, KEY, stat),
                  hint, near)
    /\ UNCHANGED << now, KEY, registry_file >>
    /\ UNCHANGED ApiFrame

\* The artifact after a lossy edit that leaves what it shows: a picture,
\* sound, film or document saved again without its metadata and with its
\* coefficients requantised; a text typed again with a word added.
Degraded(art) ==
    IF art.data_type = "text"
    THEN [art EXCEPT
             !.text = [i \in 1..Len(art.text) |-> Token(art.text[i].w)]
                      \o << Token(3) >>]
    ELSE [art EXCEPT
             !.meta = << >>, !.keywords = << >>, !.annots = << >>,
             !.qim = [key |-> << >>, bytes |-> << 0 >>]]

\* The client edits the artifact before it asks for verification.
Degrade ==
    /\ client.pc = "watermarked"
    /\ ~client.edited
    /\ client' = [client EXCEPT !.art = Degraded(client.art), !.edited = TRUE]
    /\ UNCHANGED << now, KEY, registry_file >>
    /\ UNCHANGED ApiFrame

\* A second passes.
Tick ==
    /\ now.lo < Clock0.lo + MaxTicks
    /\ now' = WideSucc(now)
    /\ UNCHANGED << KEY, registry_file, client >>
    /\ UNCHANGED ApiFrame

\* The server is started again with another WATERMARK_SECRET_KEY;
\* registry.json stays.
Restart(key) ==
    /\ key # KEY
    /\ KEY' = key
    /\ UNCHANGED << now, registry_file, client >>
    /\ UNCHANGED ApiFrame

Init ==
    /\ now = Clock0
    /\ pl = PlIdle
    /\ tx = TxIdle
    /\ KEY = K1
    /\ registry_file = << >>
    /\ client = ClientIdle
    /\ lock = Unlocked
    /\ tmp_file = NoFile
    /\ threads = [t \in Threads |-> ThreadIdle]
    /\ io = IoIdle
    /\ caller = CallerIdle

Next ==
    \/ \E req \in Requests : WatermarkReq(req)
    \/ \E hint \in Hints, stat \in BOOLEAN, near \in BOOLEAN :
          VerifyReq(hint, stat, near)
    \/ Degrade
    \/ Tick
    \/ \E key \in Keys : Restart(key)

Spec == Init /\ [][Next]_vars

\* ------------------------------------------------------------------------
\* The registry under concurrent calls  (registry.py), specification SpecReg
\* ------------------------------------------------------------------------

\* What the steps inside registry.py leave alone.
RegFrame == << now, pl, tx, KEY, client, io, caller >>

\* The calls watermark_endpoint makes to register_watermark within one
\* second: a text and a document from "gpt-4o" (one wm_id), and the text
\* under the split name.
RegRequests ==
    {r \in Requests :
        \/ r.data_type = "pdf" /\ r.model_name = Gpt4o
        \/ r.data_type = "text" /\ Len(r.data.text) = 2}

RegEntries == {WatermarkOutcome(r, K1, Clock0).entry : r \in RegRequests}

RegWmIds == {e.wm_id : e \in RegEntries}

RegHashes == {e.wm_content_hash : e \in RegEntries}

\* `with _lock:` can be entered.
LockFree_always(l) == TRUE

LockFree(l) == l = Unlocked

\* register_watermark is called: the entry is built before the lock is
\* taken.
RegisterCall(t, entry) ==
    /\ threads[t].pc = "idle"
    /\ Len(registry_file) < MaxEntries
    /\ threads' = [threads EXCEPT ![t] =
                      [ThreadIdle EXCEPT
                          !.pc = "lock", !.entry = entry,
                          !.overlapped =
                              \E u \in Threads \ {t} :
                                  threads[u].pc \notin {"idle", "done", "looked"}]]
    /\ UNCHANGED << registry_file, lock, tmp_file >>
    /\ UNCHANGED RegFrame

\* with _lock:
Acquire(t) ==
    /\ threads[t].pc = "lock"
    /\ LockFree(lock)
    /\ lock' = t
    /\ threads' = [threads EXCEPT ![t].pc = "read"]
    /\ UNCHANGED << registry_file, tmp_file >>
    /\ UNCHANGED RegFrame

\* entries = _read_registry()
ReadRegistry(t) ==
    /\ threads[t].pc = "read"
    /\ threads' = [threads EXCEPT ![t].pc = "check",
                                  ![t].entries = registry_file]
    /\ UNCHANGED << registry_file, lock, tmp_file >>
    /\ UNCHANGED RegFrame

\* if not any(e.get("wm_id") == wm_id for e in entries):
\*     entries.append(entry)
CheckDuplicate(t) ==
    /\ threads[t].pc = "check"
    /\ threads' = [threads EXCEPT
                      ![t].pc = IF HasWmId(threads[t].entries,
                                           threads[t].entry.wm_id)
                                THEN "unlock" ELSE "open",
                      ![t].entries = Registered(threads[t].entries,
                                                threads[t].entry)]
    /\ UNCHANGED << registry_file, lock, tmp_file >>
    /\ UNCHANGED RegFrame

\* _write_registry: open(tmp, "w") creates or truncates registry.json.tmp.
OpenTmp_inplace(t) ==
    /\ threads[t].pc = "open"
    /\ registry_file' = read_registry(EmptyFile)
    /\ threads' = [threads EXCEPT ![t].pc = "dump"]
    /\ UNCHANGED << tmp_file, lock >>
    /\ UNCHANGED RegFrame

OpenTmp(t) ==
    /\ threads[t].pc = "open"
    /\ tmp_file' = EmptyFile
    /\ threads' = [threads EXCEPT ![t].pc = "dump"]
    /\ UNCHANGED << registry_file, lock >>
    /\ UNCHANGED RegFrame

\* _write_registry: json.dump(entries, f), and the file is closed.
DumpTmp(t) ==
    /\ threads[t].pc = "dump"
    /\ tmp_file' = FileOf(threads[t].entries)
    /\ threads' = [threads EXCEPT ![t].pc = "replace"]
    /\ UNCHANGED << registry_file, lock >>
    /\ UNCHANGED RegFrame

\* _write_registry: os.replace(tmp, registry.json); FileNotFoundError when
\* the temporary file is gone.  registry_file is the list a reader gets
\* from the document moved there.
ReplaceFile(t) ==
    /\ threads[t].pc = "replace"
    /\ IF tmp_file.exists
       THEN /\ registry_file' = read_registry(tmp_file)
            /\ tmp_file' = NoFile
            /\ threads' = [threads EXCEPT ![t].pc = "unlock"]
       ELSE /\ threads' = [threads EXCEPT ![t].pc = "raise"]
            /\ UNCHANGED << registry_file, tmp_file >>
    /\ UNCHANGED lock
    /\ UNCHANGED RegFrame

\* The with block is left: _lock is released, and register_watermark
\* returns the entry or lets the exception through.
Release(t) ==
    /\ threads[t].pc \in {"unlock", "raise"}
    /\ lock' = Unlocked
    /\ threads' = [threads EXCEPT
                      ![t].pc = IF threads[t].pc = "unlock" THEN "done"
                                ELSE "failed"]
    /\ UNCHANGED << registry_file, tmp_file >>
    /\ UNCHANGED RegFrame

\* lookup_by_id, without the lock.
LookupById(t, wm_id) ==
    /\ threads[t].pc = "idle"
    /\ threads' = [threads EXCEPT ![t] =
                      [ThreadIdle EXCEPT
                          !.pc = "looked",
                          !.result = lookup_by_id(registry_file, wm_id)]]
    /\ UNCHANGED << registry_file, lock, tmp_file >>
    /\ UNCHANGED RegFrame

\* lookup_by_hash, without the lock.
LookupByHash(t, content_hash) ==
    /\ threads[t].pc = "idle"
    /\ threads' = [threads EXCEPT ![t] =
                      [ThreadIdle EXCEPT
                          !.pc = "looked",
                          !.result = lookup_by_hash(registry_file, content_hash)]]
    /\ UNCHANGED << registry_file, lock, tmp_file >>
    /\ UNCHANGED RegFrame

\* The request is answered; the thread takes the next one.
ThreadReturn(t) ==
    /\ threads[t].pc \in {"done", "failed", "looked"}
    /\ threads' = [threads EXCEPT ![t] = ThreadIdle]
    /\ UNCHANGED << registry_file, lock, tmp_file >>
    /\ UNCHANGED RegFrame

\* The process dies at any point and is started again: its threads and
\* _lock are gone, the files stay as they are.
Crash ==
    /\ \E t \in Threads : threads[t].pc # "idle"
    /\ threads' = [t \in Threads |-> ThreadIdle]
    /\ lock' = Unlocked
    /\ UNCHANGED << registry_file, tmp_file >>
    /\ UNCHANGED RegFrame

InitReg ==
    /\ now = Clock0
    /\ pl = PlIdle
    /\ tx = TxIdle
    /\ KEY = K1
    /\ registry_file = << >>
    /\ client = ClientIdle
    /\ lock = Unlocked
    /\ tmp_file = NoFile
    /\ threads = [t \in Threads |-> ThreadIdle]
    /\ io = IoIdle
    /\ caller = CallerIdle

NextReg ==
    \/ \E t \in Threads, entry \in RegEntries : RegisterCall(t, entry)
    \/ \E t \in Threads : Acquire(t)
    \/ \E t \in Threads : ReadRegistry(t)
    \/ \E t \in Threads : CheckDuplicate(t)
    \/ \E t \in Threads : OpenTmp(t)
    \/ \E t \in Threads : DumpTmp(t)
    \/ \E t \in Threads : ReplaceFile(t)
    \/ \E t \in Threads : Release(t)
    \/ \E t \in Threads, wm_id \in RegWmIds : LookupById(t, wm_id)
    \/ \E t \in Threads, h \in RegHashes : LookupByHash(t, h)
    \/ \E t \in Threads : ThreadReturn(t)
    \/ Crash

SpecReg == InitReg /\ [][NextReg]_vars

\* ------------------------------------------------------------------------
\* The registry on a file of any content  (registry.py), specification
\* SpecIO
\* ------------------------------------------------------------------------

IoFrame ==
    << now, pl, tx, KEY, registry_file, client, lock, tmp_file, threads,
       caller >>

\* An element of the JSON list that is no object: the number 1.
NotADict == [NoEntry EXCEPT !.data_type = "int"]

IsDict(e) == e.data_type # "int"

\* e.get(...) raises AttributeError in a loop over entries that ends at
\* index last, or runs through when last = 0.
GetRaises(entries, last) ==
    \E k \in 1..Len(entries) : ~IsDict(entries[k]) /\ (last = 0 \/ k < last)

\* registry.json as something other than this program may have left it:
\* missing, cut short, a JSON object, and lists with and without elements
\* that are no objects.
Documents ==
    {NoFile, EmptyFile, ObjectFile, FileOf(<< >>), FileOf(<< NotADict >>)}
    \cup {FileOf(<< e >>) : e \in RegEntries}
    \cup {FileOf(<< e, NotADict >>) : e \in RegEntries}
    \cup {FileOf(<< NotADict, e >>) : e \in RegEntries}

\* The contents looked up: the texts and the document of Requests.
IoQueries == {r.data : r \in {q \in Requests : q.data_type \in {"text", "pdf"}}}

\* How a call ended: raised tells whether an exception came out, value is
\* what was returned, doc the file afterwards.
Outcome(op, file, raised, value, doc) ==
    [before |-> file, doc |-> doc, op |-> op, raised |-> raised,
     value |-> value]

\* register_watermark: any(...) stops at the first entry of this wm_id.
RegisterOutcome(file, entries, entry, hit) ==
    IF GetRaises(entries, hit)
    THEN Outcome("register_watermark", file, TRUE, NoMatch, file)
    ELSE Outcome("register_watermark", file, FALSE, entry,
                 IF hit # 0 THEN file ELSE FileOf(Append(entries, entry)))

\* A lookup whose loop returns at the first match m.
LookupOutcome(op, file, entries, m) ==
    IF GetRaises(entries, m.index)
    THEN Outcome(op, file, TRUE, NoMatch, file)
    ELSE Outcome(op, file, FALSE, m, file)

\* lookup_content: lookup_by_hash, then for a text of three words or more
\* lookup_by_perceptual_text, whose loop visits every entry.
ContentOutcome(file, entries, content, exact) ==
    IF exact.found \/ GetRaises(entries, 0)
    THEN LookupOutcome("lookup_content", file, entries, exact)
    ELSE IF content.data_type = "text" /\ text_shingles(content.text) # {}
    THEN LookupOutcome("lookup_content", file, entries,
                       lookup_by_perceptual_text(entries, content.text))
    ELSE Outcome("lookup_content", file, FALSE, NoMatch, file)

\* get_registry_stats: total_entries and by_data_type.
StatsValue(entries) ==
    [total_entries |-> Len(entries),
     by_data_type |->
         [dt \in {entries[k].data_type : k \in 1..Len(entries)} |->
             Cardinality({k \in 1..Len(entries) : entries[k].data_type = dt})]]

StatsOutcome(file, entries) ==
    IF GetRaises(entries, 0)
    THEN Outcome("get_registry_stats", file, TRUE, NoMatch, file)
    ELSE Outcome("get_registry_stats", file, FALSE, StatsValue(entries), file)

\* Someone puts another registry.json in place.
IoReplace(file) ==
    /\ io' = [IoIdle EXCEPT !.before = file, !.doc = file]
    /\ UNCHANGED IoFrame

IoRegister(entry) ==
    /\ io' = RegisterOutcome(io.doc, read_registry(io.doc), entry,
                             FirstIndex({k \in 1..Len(read_registry(io.doc)) :
                                 /\ IsDict(read_registry(io.doc)[k])
                                 /\ read_registry(io.doc)[k].wm_id = entry.wm_id}))
    /\ UNCHANGED IoFrame

IoLookupById(wm_id) ==
    /\ io' = LookupOutcome("lookup_by_id", io.doc, read_registry(io.doc),
                           lookup_by_id(read_registry(io.doc), wm_id))
    /\ UNCHANGED IoFrame

IoLookupByHash(content_hash) ==
    /\ io' = LookupOutcome("lookup_by_hash", io.doc, read_registry(io.doc),
                           lookup_by_hash(read_registry(io.doc), content_hash))
    /\ UNCHANGED IoFrame

IoLookupContent(content) ==
    /\ io' = ContentOutcome(io.doc, read_registry(io.doc), content,
                            lookup_by_hash(read_registry(io.doc),
                                           Sha256(content)))
    /\ UNCHANGED IoFrame

IoStats ==
    /\ io' = StatsOutcome(io.doc, read_registry(io.doc))
    /\ UNCHANGED IoFrame

\* get_all_entries returns what _read_registry returns.
IoAllEntries ==
    /\ io' = Outcome("get_all_entries", io.doc, FALSE, read_registry(io.doc),
                     io.doc)
    /\ UNCHANGED IoFrame

InitIO ==
    /\ now = Clock0
    /\ pl = PlIdle
    /\ tx = TxIdle
    /\ KEY = K1
    /\ registry_file = << >>
    /\ client = ClientIdle
    /\ lock = Unlocked
    /\ tmp_file = NoFile
    /\ threads = [t \in Threads |-> ThreadIdle]
    /\ io \in {[IoIdle EXCEPT !.before = file, !.doc = file] : file \in Documents}
    /\ caller = CallerIdle

NextIO ==
    \/ \E file \in Documents : IoReplace(file)
    \/ \E entry \in RegEntries : IoRegister(entry)
    \/ \E wm_id \in RegWmIds : IoLookupById(wm_id)
    \/ \E h \in RegHashes : IoLookupByHash(h)
    \/ \E content \in IoQueries : IoLookupContent(content)
    \/ IoStats
    \/ IoAllEntries

SpecIO == InitIO /\ [][NextIO]_vars

\* ------------------------------------------------------------------------
\* Claims about the payload codec  (under SpecPayload)
\* ------------------------------------------------------------------------

\* A payload was built and parsed, unchanged, under the key it was built with.
RoundTripped ==
    pl.pc = "parsed" /\ pl.src = "built" /\ pl.key = pl.input.key

\* What a field of n bytes gives back for the string s: the first n bytes of
\* its UTF-8 encoding, without trailing NULs, decoded with replacement; None
\* when nothing is left.
FieldRead(s, n) ==
    LET b == RStripNul(Slice(Utf8Encode(IF s = None THEN << >> ELSE s), 0, n))
        d == Utf8Decode(b)
    IN  IF d = << >> THEN None ELSE d

\* s is given back as it is: not empty, at most n bytes, no trailing NUL.
FitsField(s, n) ==
    /\ s # None /\ s # << >>
    /\ Len(Utf8Encode(s)) <= n
    /\ s[Len(s)] # 0

\* The same string, an empty one and None taken for the same.
SameStr(a, b) == a = b \/ {a, b} \subseteq {None, << >>}

\* C3 as stated: parse_payload(build_payload(model, ts, K, ctx), K) succeeds
\* and returns the same model name, the same Unix-seconds timestamp and the
\* same context, for every string.
C3_RoundTripExact ==
    RoundTripped =>
        /\ pl.out.valid
        /\ SameStr(pl.out.model_name, pl.input.model_name)
        /\ SameStr(pl.out.context, pl.input.context)
        /\ pl.input.timestamp.iso =>
               pl.out.timestamp_unix = pl.input.timestamp.secs

\* C3 amended: the round trip always succeeds; it returns the timestamp's
\* Unix seconds modulo 2^32 (the clock's when the string is no ISO
\* timestamp), and for model name and context the first 16 and 8 UTF-8 bytes
\* without trailing NULs, decoded with replacement, None when empty -- which
\* is the string passed whenever that is non-empty, fits and ends in no NUL.
C3_RoundTripTruncated ==
    RoundTripped =>
        /\ pl.out.valid
        /\ pl.out.model_name = FieldRead(pl.input.model_name, MODEL_LEN)
        /\ pl.out.context = FieldRead(pl.input.context, CTX_LEN)
        /\ FitsField(pl.input.model_name, MODEL_LEN) =>
               pl.out.model_name = pl.input.model_name
        /\ FitsField(pl.input.context, CTX_LEN) =>
               pl.out.context = pl.input.context
        /\ pl.out.timestamp_unix =
               (IF pl.input.timestamp.iso
                THEN Wide(pl.input.timestamp.secs.hi % 65536,
                          pl.input.timestamp.secs.lo)
                ELSE Wide(now.hi % 65536, now.lo))

\* C3 witness: a name longer than its field went through the round trip and
\* came back cut.
C3_Witness ==
    /\ RoundTripped
    /\ pl.input.model_name # None
    /\ Len(Utf8Encode(pl.input.model_name)) > MODEL_LEN
    /\ pl.out.valid
    /\ pl.out.model_name # pl.input.model_name

\* C4: a payload built under K is rejected under every other key: for all
\* K' # K and all fields, parse_payload(build_payload(.., K), K') is None.
C4_WrongKeyRejected ==
    (pl.pc = "parsed" /\ pl.src = "built" /\ pl.key # pl.input.key) =>
        pl.out = ParseNone

\* C4 witness: an unchanged payload was parsed under another key and refused.
C4_Witness ==
    /\ pl.pc = "parsed" /\ pl.src = "built" /\ pl.key # pl.input.key
    /\ ~pl.out.valid

\* C5: for a byte string of any length parse_payload returns None iff the
\* 2-byte magic differs from "WM" or the 4-byte tag raw[30:34] differs from
\* the first 4 bytes of HMAC(K, raw[0:30]).  (A raw shorter than 34 bytes has
\* no 4-byte tag, so its tag differs.)
C5_ParseFailsIffMagicOrTag ==
    pl.pc = "parsed" =>
        (~pl.out.valid <=>
            \/ Slice(pl.raw, 0, 2) # MAGIC
            \/ Slice(pl.raw, PRE_LEN, PRE_LEN + 4)
                  # HmacTag(pl.key, Slice(pl.raw, 0, PRE_LEN)))

\* C5 witness: a raw of 33 bytes with the right magic was parsed and refused.
C5_Witness ==
    /\ pl.pc = "parsed" /\ pl.src = "truncated"
    /\ Len(pl.raw) = PAYLOAD_BYTES - 1
    /\ Slice(pl.raw, 0, 2) = MAGIC
    /\ ~pl.out.valid

\* C21 as stated: two calls of build_payload with identical model name,
\* timestamp string, key and context return identical payloads, whatever
\* the timestamp string is.
C21_SameArgumentsSamePayload ==
    pl.pc = "rebuilt" => pl.again = pl.raw

\* C21 amended: two calls with identical arguments return identical
\* payloads of PAYLOAD_BYTES bytes when the timestamp string parses as
\* ISO-8601, at whatever times the calls are made; for a string that does
\* not parse they do when both calls read the same second of the clock.
C21_SamePayloadIfIsoOrSameSecond ==
    (pl.pc = "rebuilt" /\ (pl.input.timestamp.iso \/ ~pl.later)) =>
        /\ pl.again = pl.raw
        /\ Len(pl.again) = PAYLOAD_BYTES

\* A payload with an ISO timestamp was built again a second later.
C21_Witness ==
    /\ pl.pc = "rebuilt" /\ pl.later /\ pl.input.timestamp.iso
    /\ pl.again = pl.raw /\ Len(pl.raw) = PAYLOAD_BYTES

\* C22: from_bits(to_bits(p)) = p for every byte string p, and to_bits(p)
\* holds eight bits for each byte, the most significant one first.
C22_BitsRoundTrip ==
    pl.pc = "bits" =>
        /\ pl.back = pl.raw
        /\ Len(pl.bits) = 8 * Len(pl.raw)
        /\ \A k \in 1..Len(pl.raw) :
               /\ pl.bits[8 * k - 7] = pl.raw[k] \div 128
               /\ pl.bits[8 * k] = pl.raw[k] % 2

\* The bits of a whole payload were taken and put together again: they
\* begin with those of the magic byte 0x57.
C22_Witness ==
    /\ pl.pc = "bits" /\ Len(pl.raw) = PAYLOAD_BYTES
    /\ SubSeq(pl.bits, 1, 8) = << 0, 1, 0, 1, 0, 1, 1, 1 >>
    /\ pl.back = pl.raw

\* C20: derive_wm_id never raises; it returns None when ts_unix is None
\* and the SHA-256 hex digest of K, the timestamp and the model name
\* otherwise.
C20_DeriveWmIdTotal ==
    pl.pc = "derived" =>
        /\ ~pl.raised
        /\ pl.ts_unix = NoneInt => pl.wm_id = NoneId
        /\ pl.ts_unix # NoneInt =>
               pl.wm_id = Sha256(pl.key \o PackBE32(pl.ts_unix)
                                    \o EncodeField(pl.input.model_name, MODEL_LEN))

\* ------------------------------------------------------------------------
\* Claims about the text engine  (under SpecText)
\* ------------------------------------------------------------------------

\* A text of at least one token was embedded and verified under the same key.
TextRoundTripped ==
    tx.pc = "verified" /\ tx.vkey = tx.key /\ Len(tx.text) >= 1 /\ tx.edit = "none"

\* C1: for every text with at least one token, every key and every model
\* name, verifying the output of embed_text_watermark under the same key
\* returns detected and signature_valid with the embedded model name and a
\* non-null wm_id, however many of its words are carriers.
C1_TextRoundTrip ==
    TextRoundTripped =>
        /\ tx.res.detected
        /\ tx.res.signature_valid
        /\ tx.res.model_name = tx.model_name
        /\ tx.res.wm_id # NoneId

\* C16: when any two of the five copies of a watermarked text are lost
\* (their carrier words removed, or the zero-width characters of these
\* words stripped or altered) and every other token is untouched,
\* verify_text_watermark under the embedding key still returns
\* signature_valid = true, as it did for the untouched text.
C16_TwoCopiesMayBeLost ==
    (/\ tx.pc = "verified" /\ tx.vkey = tx.key
     /\ tx.edit = "copies"
     /\ verify_text_watermark(tx.orig, tx.key).signature_valid) =>
        tx.res.signature_valid

\* C17: deleting non-carrier words of a watermarked text leaves what
\* verify_text_watermark extracts as it was before the deletion:
\* signature_valid, model_name, timestamp and wm_id are the same.
C17_NonCarriersDeleted ==
    (tx.pc = "verified" /\ tx.vkey = tx.key /\ tx.edit = "words") =>
        LET before == verify_text_watermark(tx.orig, tx.vkey) IN
        /\ tx.res.signature_valid = before.signature_valid
        /\ tx.res.model_name = before.model_name
        /\ tx.res.timestamp_unix = before.timestamp_unix
        /\ tx.res.wm_id = before.wm_id

\* A text of a carrier and two other words lost both of these and still
\* verifies with the embedded model name.
C17_Witness ==
    /\ tx.pc = "verified" /\ tx.vkey = tx.key /\ tx.edit = "words"
    /\ Len(tx.orig) = 3 /\ Len(tx.wm) = 1
    /\ tx.res.signature_valid
    /\ tx.res.model_name = tx.model_name /\ tx.model_name # None
    /\ tx.res.wm_id # NoneId

\* The zero-width characters of the tokens ccl[j], ccl[j + 1], ... of wm,
\* one after the other.
RECURSIVE ZwAlong(_, _, _)
ZwAlong(wm, ccl, j) ==
    IF j > Len(ccl) THEN << >> ELSE wm[ccl[j]].zw \o ZwAlong(wm, ccl, j + 1)

\* C27: for each of the five copies that has s >= 1 carriers, embed appends
\* at most ceil(136 / s) zero-width code points to each of its carriers;
\* read in token order they are exactly 136 code points that carry the 272
\* bits of the payload; a token that is the carrier of no copy gets none.
C27_CopyOnItsCarriers ==
    tx.pc # "start" =>
        /\ \A r \in 0..(REDUNDANCY - 1) :
              LET ccl == CopyCarriers(tx.text, tx.key, r)
                  s   == Len(ccl)
                  zw  == ZwAlong(tx.orig, ccl, 1)
              IN  s >= 1 =>
                    /\ \A j \in 1..s :
                          /\ s * Len(tx.orig[ccl[j]].zw) < TotalZw + s
                          /\ tx.orig[ccl[j]].w = tx.text[ccl[j]].w
                          /\ carrier_copy(tx.text[ccl[j]].w, tx.key) = r
                    /\ Len(zw) = TotalZw
                    /\ Len(ZwBits(zw)) = PAYLOAD_BITS
                    /\ ZwBits(zw) =
                          to_bits(build_payload(tx.model_name, IsoTimestamp(now),
                                                tx.key, tx.context, now))
                    /\ parse_payload(from_bits(ZwBits(zw)), tx.key).valid
        /\ Len(tx.orig) = Len(tx.text)
        /\ \A i \in 1..Len(tx.text) :
              (\A r \in 0..(REDUNDANCY - 1) :
                  \A j \in 1..Len(CopyCarriers(tx.text, tx.key, r)) :
                      CopyCarriers(tx.text, tx.key, r)[j] # i)
                  => tx.orig[i] = tx.text[i]

\* A text of three carriers of one copy was embedded: 46, 46 and 44
\* zero-width code points.
C27_Witness ==
    /\ tx.pc # "start" /\ Len(tx.text) = 3
    /\ \E r \in 0..(REDUNDANCY - 1) :
          Len(CopyCarriers(tx.text, tx.key, r)) = 3
    /\ Len(tx.orig[1].zw) = 46 /\ Len(tx.orig[2].zw) = 46 /\ Len(tx.orig[3].zw) = 44

\* ------------------------------------------------------------------------
\* Claims about the PDF engine  (under SpecPdf)
\* ------------------------------------------------------------------------

\* The positions in PdfLayers of the layers that survive intact.
Intact == {i \in 1..3 : PdfLayers[i] \notin caller.stripped \cup caller.corrupt}

\* C18: when at least one of the three layers of a watermarked PDF
\* survives intact, whatever happened to the others, verify_pdf_watermark
\* under the embedding key returns signature_valid = true with the embedded
\* model name, and the source it reports is the first intact layer in the
\* order metadata, keywords, annotation.
C18_EachLayerSuffices ==
    (caller.pc = "verified" /\ caller.vkey = caller.key /\ Intact # {}) =>
        /\ caller.res.signature_valid
        /\ caller.res.model_name = DecodeField(EncodeField(caller.model_name, MODEL_LEN))
        /\ \E i \in Intact :
               /\ \A j \in Intact : i <= j
               /\ caller.res.source = PdfLayers[i]

\* The metadata field was removed and the keywords damaged; the payload is
\* read from the annotation.
C18_Witness ==
    /\ caller.pc = "verified" /\ caller.vkey = caller.key
    /\ caller.stripped = {"metadata"} /\ caller.corrupt = {"keywords"}
    /\ caller.res.signature_valid
    /\ caller.res.source = "annotation"

\* ------------------------------------------------------------------------
\* Claims about short content  (under SpecShort)
\* ------------------------------------------------------------------------

\* C19: on a text with no token, a video with no frame and an audio clip
\* of a few samples no engine raises, verify on the empty text and the
\* empty video returns detected = false, and every bin the audio engine
\* reads or writes lies in the spectrum 0 .. n_freqs - 1.
C19_ShortContentNeverRaises ==
    /\ ~caller.raised
    /\ \A f \in caller.bins : f \in 0..(NFreqs(caller.n) - 1)
    /\ (caller.pc = "returned" /\ caller.engine \in {"text", "video"}) =>
           ~caller.detected

\* ------------------------------------------------------------------------
\* Claims about the API  (under Spec)
\* ------------------------------------------------------------------------

\* The client's artifact, as /api/watermark returned it, was verified by a
\* server holding the key it was embedded under, and the engine itself read
\* a signed payload from it.
VerifiedSameKey ==
    /\ client.pc = "verified"
    /\ client.vkey = client.wkey
    /\ client.vres.signature_valid
    /\ ~client.vres.registry_match

\* C2: for every artifact embedded under K, /api/verify under another key
\* K' reports signature_valid = false and matched_watermark_id = null,
\* whatever the registry holds, the entry written at embedding included.
C2_WrongKeyNeverValid ==
    (client.pc = "verified" /\ client.vkey # client.wkey) =>
        /\ ~client.vres.signature_valid
        /\ client.vres.matched_watermark_id = NoneId

\* C6: the watermark_id of /api/watermark equals the matched_watermark_id
\* /api/verify returns for the resulting artifact under the same key, for
\* every model_name.
C6_SameWatermarkId ==
    VerifiedSameKey =>
        client.vres.matched_watermark_id = client.wres.watermark_id

\* C7: for every modality, the context of the embed request is the context
\* verify returns for the resulting artifact under the same key.
C7_ContextCarried ==
    VerifiedSameKey => SameStr(client.vres.context, client.req.context)

\* C29: after any sequence of successful /api/watermark requests the
\* artifact just returned is findable: lookup_content on its bytes answers
\* with an exact_hash match, and the entry matched is the one written for
\* this artifact (its wm_content_hash and the watermark_id returned).
C29_ArtifactFindable ==
    (client.pc = "watermarked" /\ ~client.edited) =>
        \A near \in BOOLEAN :
            LET m == lookup_content(registry_file, client.art.data_type,
                                    client.art, near)
            IN  /\ m.found
                /\ m.match_type = "exact_hash"
                /\ registry_file[m.index].wm_content_hash = Sha256(client.art)
                /\ registry_file[m.index].wm_id = client.wres.watermark_id

\* C30: model_name, context and matched_watermark_id of /api/verify are
\* non-null only when the payload validated or the registry matched, and
\* the response is the one the same request without model_name hint gets.
C30_HintChangesNothing ==
    client.pc = "verified" =>
        /\ (\/ client.vres.model_name # None
            \/ client.vres.context # None
            \/ client.vres.matched_watermark_id # NoneId)
              => (client.stat_result.signature_valid \/ client.vres.registry_match)
        /\ \E near \in BOOLEAN :
              client.vres = VerifyLookup(client.stat_result, registry_file,
                                         client.art.data_type, client.art,
                                         None, near)

\* The entry at index i holds the SHA-256 of the artifact the client had
\* verified.
ExactEntry(i) ==
    \/ registry_file[i].content_hash = Sha256(client.art)
    \/ registry_file[i].wm_content_hash = Sha256(client.art)

RegistrySources ==
    {"registry_exact_hash", "registry_perceptual_image",
     "registry_perceptual_video", "registry_perceptual_audio",
     "registry_perceptual_text"}

C14_TamperIffStatWithoutHmac ==
    client.pc = "verified" =>
        /\ client.vres.tamper_detected =
               (client.stat_result.stat /\ ~client.stat_result.signature_valid)
        /\ client.vres.tamper_detected =>
               (client.vres.watermark_detected /\ ~client.vres.signature_valid)
        /\ client.vres.registry_match => ~client.vres.tamper_detected

\* An artifact verified under another key than it was embedded with: the
\* correlation test fired, no payload parsed, and tamper_detected is set.
C14_Witness ==
    /\ client.pc = "verified"
    /\ client.vkey # client.wkey
    /\ client.stat_result.stat
    /\ ~client.stat_result.signature_valid
    /\ client.vres.tamper_detected

\* C15: whenever verify_endpoint has run lookup_content (the engine
\* detected nothing) and some entry holds the SHA-256 of the artifact in
\* content_hash or wm_content_hash, the match is the first such entry with
\* match_type "exact_hash"; a perceptual match is returned only when no
\* entry holds that hash.
C15_ExactBeforePerceptual ==
    (client.pc = "verified" /\ ~client.stat_result.detected) =>
        /\ \A i \in 1..Len(registry_file) :
               (ExactEntry(i) /\ \A j \in 1..(i - 1) : ~ExactEntry(j)) =>
                   /\ client.vres.detection_source = "registry_exact_hash"
                   /\ client.vres.matched_watermark_id = registry_file[i].wm_id
        /\ client.vres.detection_source
               \in RegistrySources \ {"registry_exact_hash"} =>
                   \A i \in 1..Len(registry_file) : ~ExactEntry(i)

\* A picture verified under another key, with no correlation: the registry
\* holds its hash and an entry of its perceptual hash, and the match
\* returned is the exact one.
C15_Witness ==
    /\ client.pc = "verified"
    /\ ~client.stat_result.detected
    /\ client.art.data_type = "image"
    /\ \E i \in 1..Len(registry_file) :
           /\ ExactEntry(i)
           /\ registry_file[i].data_type = "image"
           /\ registry_file[i].phash = client.art.content
    /\ client.vres.detection_source = "registry_exact_hash"

\* ------------------------------------------------------------------------
\* Claims about the registry  (under SpecReg)
\* ------------------------------------------------------------------------

\* registry.json holds an entry of this wm_id.
Present(wm_id) ==
    \E i \in 1..Len(registry_file) : registry_file[i].wm_id = wm_id

\* Thread t is inside a call of register_watermark.
InRegister(t) ==
    threads[t].pc \in {"lock", "read", "check", "open", "dump", "replace",
                       "unlock", "raise"}

UniqueWmIds ==
    \A i, j \in 1..Len(registry_file) :
        registry_file[i].wm_id = registry_file[j].wm_id => i = j

\* C8: under any interleaving of register_watermark calls registry.json
\* never holds two entries of one wm_id, and no step of a call whose wm_id
\* is already in registry.json changes the file.
C8_OneEntryPerWmId ==
    /\ []UniqueWmIds
    /\ [][\A t \in Threads :
             (/\ InRegister(t)
              /\ Present(threads[t].entry.wm_id)
              /\ threads'[t] # threads[t])
                 => registry_file' = registry_file]_vars

\* A call that overlapped another one has returned, and the entry stored
\* under its wm_id is the one an earlier call wrote, not its own.
C8_Witness ==
    \E t \in Threads :
        /\ threads[t].pc = "done"
        /\ threads[t].overlapped
        /\ \E i \in 1..Len(registry_file) :
               /\ registry_file[i].wm_id = threads[t].entry.wm_id
               /\ registry_file[i] # threads[t].entry

\* C9: every step of register_watermark and of the lookups leaves the
\* entries of registry.json where they are, with the values they had; the
\* list only grows at its end.
C9_EntriesKept ==
    [][/\ Len(registry_file') >= Len(registry_file)
       /\ \A i \in 1..Len(registry_file) :
              registry_file'[i] = registry_file[i]]_vars

\* A call has appended its entry behind the entry of an earlier call, which
\* is still the first of registry.json, and a lookup has found that one.
C9_Witness ==
    \E t, u \in Threads :
        /\ threads[t].pc = "done"
        /\ Len(threads[t].entries) = 2
        /\ threads[t].entries[2] = threads[t].entry
        /\ registry_file = threads[t].entries
        /\ threads[u].pc = "looked"
        /\ threads[u].result = Match(1, "id")

\* C10: whenever calls of register_watermark with distinct wm_ids have
\* returned in two threads, registry.json holds an entry of each of the
\* two wm_ids.
C10_NoLostUpdate ==
    \A t, u \in Threads :
        (/\ t # u
         /\ threads[t].pc = "done"
         /\ threads[u].pc = "done"
         /\ threads[t].entry.wm_id # threads[u].entry.wm_id)
            => /\ Present(threads[t].entry.wm_id)
               /\ Present(threads[u].entry.wm_id)

\* Two calls with distinct wm_ids, the second made while the first was in
\* progress, have both returned and both entries are stored.
C10_Witness ==
    \E t, u \in Threads :
        /\ t # u
        /\ threads[t].pc = "done"
        /\ threads[u].pc = "done"
        /\ threads[u].overlapped
        /\ threads[t].entry.wm_id # threads[u].entry.wm_id
        /\ registry_file = << threads[t].entry, threads[u].entry >>

\* C11: every step, a crash included, leaves registry.json as it was or
\* puts in its place the whole list a thread has dumped (the list it read
\* and its entry); so no reader finds anything between the two.
C11_AtomicWrite ==
    [][\/ registry_file' = registry_file
       \/ \E t \in Threads :
              /\ threads[t].pc = "replace"
              /\ tmp_file = FileOf(threads[t].entries)
              /\ registry_file' = threads[t].entries
              /\ threads[t].entries[Len(threads[t].entries)] = threads[t].entry]_vars

\* The process died between open(tmp, "w") and the end of json.dump: the
\* temporary file is incomplete and registry.json still holds the entry
\* stored before.
C11_Witness ==
    /\ tmp_file = EmptyFile
    /\ \A t \in Threads : threads[t].pc \in {"idle", "looked"}
    /\ \E t \in Threads : threads[t].result = Match(1, "exact_hash")
    /\ Len(registry_file) = 1

\* ------------------------------------------------------------------------
\* Claims about the registry on a file of any content  (under SpecIO)
\* ------------------------------------------------------------------------

\* registry.json is missing, or is no JSON document, or is not a list of
\* objects.
Unusable(file) ==
    \/ ~file.exists
    \/ ~file.complete
    \/ ~file.list
    \/ \E k \in 1..Len(file.entries) : file.entries[k].data_type = "int"

\* What the operation returns on an empty registry.
EmptyValue(op, value) ==
    IF op = "register_watermark" THEN TRUE
    ELSE IF op = "get_registry_stats" THEN value.total_entries = 0
    ELSE IF op = "get_all_entries" THEN value = << >>
    ELSE value = NoMatch

\* C12: a public registry operation called on a registry.json that is
\* missing, corrupt or of unexpected content does not raise, returns what
\* it returns on an empty registry, and register_watermark leaves the
\* list of its one entry.
C12_NeverRaises ==
    (io.op # "none" /\ Unusable(io.before)) =>
        /\ ~io.raised
        /\ EmptyValue(io.op, io.value)
        /\ io.op = "register_watermark" => io.doc = FileOf(<< io.value >>)

====
